---------------------------- MODULE Spec2Model ----------------------------
(***************************************************************************)
(* A model of the document-section core of deepagents_pipeline:            *)
(*   - the text functions of react_app.py / gradio_app.py (section         *)
(*     extraction, normalisation, paragraph segmentation, rendering),      *)
(*   - the diff engine (compute_diff_html over difflib.HtmlDiff),          *)
(*   - the Topic / Section / SectionVersion store of react_app.py and the  *)
(*     handlers that write it,                                             *)
(*   - the editing session of gradio_app.py and its handlers,              *)
(*   - ResearchPipeline.run of pipeline.py (two model calls, the .tex file *)
(*     and the pdflatex passes) and the provider tools of tools.py,        *)
(*   - store_topic_sections commit by commit, in one and in two threads,   *)
(*   - slugify and _slug_from_identifier on bounded topic names.           *)
(* A text is a sequence of one-character strings; every pattern of the     *)
(* source is matched character by character.                               *)
(***************************************************************************)
EXTENDS Integers, Sequences, FiniteSets, TLC

VARIABLES
    topics,         \* table Topic: set of rows
    sections,       \* table Section: set of rows
    versions,       \* table SectionVersion: set of rows
    now,            \* datetime.utcnow(), a logical clock
    resp,           \* the last request served and its outcome
    text,           \* text functions: the input text
    result,         \* text functions: the last function applied and its value
    default_prefix, \* difflib.HtmlDiff._default_prefix (class attribute)
    diff_call,      \* diff engine: the last compute_diff_html call
    session,        \* gradio_app: the gr.State values of one browser session
                    \* and the document file they were loaded from
    store_call,     \* react_app: for each request thread, the
                    \* store_topic_sections call in progress and the commit it
                    \* has reached
    run,            \* pipeline: the ResearchPipeline.run call, its position, its
                    \* locals and the agent it built
    disk            \* pipeline: the files under the working directory

vars == <<topics, sections, versions, now, resp, text, result,
          default_prefix, diff_call, session, store_call, run, disk>>

----------------------------------------------------------------------------
(* Bounds of the model *)

MaxFrags == 3
MaxDiffLen == 2
MaxCalls == 2
MaxTime == 3
MaxRuns == 2

----------------------------------------------------------------------------
(* String literals of the source, as character sequences *)

S_SECTION_OPEN == <<"\\","s","e","c","t","i","o","n","{">>
S_END_DOCUMENT == <<"\\","e","n","d","{","d","o","c","u","m","e","n","t","}">>
S_CITE_OPEN == <<"\\","c","i","t","e","{">>
S_TEXTBF_OPEN == <<"\\","t","e","x","t","b","f","{">>
S_TEXTTT_OPEN == <<"\\","t","e","x","t","t","t","{">>
S_EMPH_OPEN == <<"\\","e","m","p","h","{">>
S_SUBSECTION_OPEN == <<"\\","s","u","b","s","e","c","t","i","o","n","{">>
S_SUBSUBSECTION_OPEN == <<"\\","s","u","b","s","u","b","s","e","c","t","i","o","n","{">>
S_BEGIN_ITEMIZE == <<"\\","b","e","g","i","n","{","i","t","e","m","i","z","e","}">>
S_BEGIN_ENUMERATE == <<"\\","b","e","g","i","n","{","e","n","u","m","e","r","a","t","e","}">>
S_END_ITEMIZE == <<"\\","e","n","d","{","i","t","e","m","i","z","e","}">>
S_END_ENUMERATE == <<"\\","e","n","d","{","e","n","u","m","e","r","a","t","e","}">>
S_ITEM == <<"\\","i","t","e","m">>
S_AMP_ESC == <<"\\","&">>
S_NO_CONTENT == <<"(","N","o"," ","c","o","n","t","e","n","t"," ","d","e","t","e","c","t","e","d"," ","i","n"," ","t","h","i","s"," ","s","e","c","t","i","o","n",".",")">>
S_SECTION_SP == <<"S","e","c","t","i","o","n"," ">>
S_DOCUMENT == <<"D","o","c","u","m","e","n","t">>
S_P_ID == <<"<","p"," ","i","d","=","'">>
S_DIV_ID == <<"<","d","i","v"," ","i","d","=","'">>
S_DIV_CLASS == <<"'"," ","c","l","a","s","s","=","'","p","a","r","a"," ","h","t","m","l","-","f","r","a","g","m","e","n","t","'",">">>
S_SPAN_OPEN == <<"<","s","p","a","n"," ","c","l","a","s","s","=","'","p","a","r","a","-","i","n","d","e","x","'",">","(">>
S_SPAN_CLOSE == <<")","<","/","s","p","a","n",">"," ">>
S_P_CLOSE == <<"<","/","p",">">>
S_DIV_CLOSE == <<"<","/","d","i","v",">">>
S_SECTION_ID == <<"s","e","c","t","i","o","n">>

----------------------------------------------------------------------------
(* Character and string primitives (Python str / re semantics) *)

\* str.isspace() / the regex class \s
Whitespace == {" ", "\t", "\n", "\r", "\f"}

UPPER == <<"A","B","C","D","E","F","G","H","I","J","K","L","M",
           "N","O","P","Q","R","S","T","U","V","W","X","Y","Z">>
LOWER == <<"a","b","c","d","e","f","g","h","i","j","k","l","m",
           "n","o","p","q","r","s","t","u","v","w","x","y","z">>
DIGITS == <<"0","1","2","3","4","5","6","7","8","9">>

Range(s) == {s[i] : i \in DOMAIN s}

SetMin(S) == CHOOSE x \in S : \A y \in S : x <= y
\* the greatest element: the least of the negated elements, negated
SetMax(S) == 0 - SetMin({0 - x : x \in S})

\* str.lower(), one character
LowerChar(c) ==
    IF \E i \in DOMAIN UPPER : UPPER[i] = c
    THEN LOWER[CHOOSE i \in DOMAIN UPPER : UPPER[i] = c]
    ELSE c

Lower(s) == [i \in DOMAIN s |-> LowerChar(s[i])]

\* str(n) for n >= 0
RECURSIVE IntToStr(_)
IntToStr(n) ==
    IF n < 10 THEN <<DIGITS[n + 1]>>
    ELSE IntToStr(n \div 10) \o <<DIGITS[(n % 10) + 1]>>

\* s[i:].startswith(p), i counted from 1
StartsWithAt(s, i, p) ==
    /\ i + Len(p) - 1 <= Len(s)
    /\ \A k \in 1..Len(p) : s[i + k - 1] = p[k]

StartsWith(s, p) == StartsWithAt(s, 1, p)

\* the first index >= i holding a character of the set cs, or 0
IndexFrom(s, cs, i) ==
    LET hits == {j \in i..Len(s) : s[j] \in cs}
    IN  IF hits = {} THEN 0 ELSE SetMin(hits)

\* text[lo:hi] of Python, offsets counted from 0
Slice(s, lo, hi) == SubSeq(s, lo + 1, hi)

\* str.strip()
Strip(s) ==
    LET keep == {j \in DOMAIN s : s[j] \notin Whitespace}
    IN  IF keep = {} THEN <<>> ELSE SubSeq(s, SetMin(keep), SetMax(keep))

\* the concatenation of parts[lo..hi]
RECURSIVE ConcatRange(_, _, _)
ConcatRange(parts, lo, hi) ==
    IF lo > hi THEN <<>>
    ELSE IF lo = hi THEN parts[lo]
    ELSE LET mid == (lo + hi) \div 2
         IN  ConcatRange(parts, lo, mid) \o ConcatRange(parts, mid + 1, hi)

Concat(parts) == ConcatRange(parts, 1, Len(parts))

\* "sep".join(parts)
Join(parts, sep) ==
    Concat([k \in 1..(2 * Len(parts) - 1) |->
               IF k % 2 = 1 THEN parts[(k + 1) \div 2] ELSE sep])

\* re.finditer / re.sub scanning: ends[j] is the last index of the pattern's match
\* starting at j (0: no match at j); the matches are taken leftmost first and do
\* not overlap, the scan resuming right after each match
RECURSIVE MatchSpans(_, _)
MatchSpans(ends, i) ==
    LET hits == {j \in i..Len(ends) : ends[j] # 0}
    IN  IF hits = {} THEN <<>>
        ELSE LET j == SetMin(hits)
             IN  <<[start |-> j, end |-> ends[j]]>> \o MatchSpans(ends, ends[j] + 1)

\* the pieces of s between the matches (re.split without groups)
Between(s, spans) ==
    [k \in 1..(Len(spans) + 1) |->
        SubSeq(s,
               IF k = 1 THEN 1 ELSE spans[k - 1].end + 1,
               IF k = Len(spans) + 1 THEN Len(s) ELSE spans[k].start - 1)]

\* re.sub: the pieces between the matches interleaved with the replacements
Substitute(s, spans, repls) ==
    LET lit == Between(s, spans)
    IN  Concat([k \in 1..(2 * Len(spans) + 1) |->
                   IF k % 2 = 1 THEN lit[(k + 1) \div 2] ELSE repls[k \div 2]])

\* str.replace(pat, repl)
Replace(s, pat, repl) ==
    IF s = <<>> THEN <<>> ELSE
    LET ends  == [j \in 1..Len(s) |->
                     IF StartsWithAt(s, j, pat) THEN j + Len(pat) - 1 ELSE 0]
        spans == MatchSpans(ends, 1)
    IN  Substitute(s, spans, [k \in DOMAIN spans |-> repl])

\* re.sub(open [^}]* \}, pad group pad) when keep, re.sub(..., "") otherwise:
\* the group runs to the first closing brace after the opening literal
SubBraced(s, open, keep, pad) ==
    IF s = <<>> THEN <<>> ELSE
    LET ends  == [j \in 1..Len(s) |->
                     IF StartsWithAt(s, j, open)
                     THEN IndexFrom(s, {"}"}, j + Len(open))
                     ELSE 0]
        spans == MatchSpans(ends, 1)
    IN  Substitute(s, spans,
            [k \in DOMAIN spans |->
                IF keep
                THEN pad \o SubSeq(s, spans[k].start + Len(open), spans[k].end - 1)
                     \o pad
                ELSE <<>>])

\* re.sub(p1|p2|..., repl) for literal alternatives, tried in order
SubAny(s, pats, repl) ==
    IF s = <<>> THEN <<>> ELSE
    LET ends  == [j \in 1..Len(s) |->
                     LET m == {k \in DOMAIN pats : StartsWithAt(s, j, pats[k])}
                     IN  IF m = {} THEN 0 ELSE j + Len(pats[SetMin(m)]) - 1]
        spans == MatchSpans(ends, 1)
    IN  Substitute(s, spans, [k \in DOMAIN spans |-> repl])

----------------------------------------------------------------------------
(* Text Normalizer *)

\* react_app._strip_html: re.sub(r"<[^>]+>", "", text); a tag runs from "<" to
\* the first ">" after it and holds at least one character
strip_html(s) ==
    IF s = <<>> THEN <<>> ELSE
    LET ends  == [j \in 1..Len(s) |->
                     LET k == IF s[j] = "<" THEN IndexFrom(s, {">"}, j + 1) ELSE 0
                     IN  IF k >= j + 2 THEN k ELSE 0]
        spans == MatchSpans(ends, 1)
    IN  Substitute(s, spans, [k \in DOMAIN spans |-> <<>>])

NL2 == <<"\n", "\n">>

\* gradio_app._normalize_latex: the ten substitutions, in the source's order
normalize_latex(s) ==
    LET t1 == SubBraced(s, S_CITE_OPEN, FALSE, <<>>)
        t2 == SubBraced(t1, S_TEXTBF_OPEN, TRUE, <<>>)
        t3 == SubBraced(t2, S_TEXTTT_OPEN, TRUE, <<>>)
        t4 == SubBraced(t3, S_EMPH_OPEN, TRUE, <<>>)
        t5 == SubBraced(t4, S_SUBSECTION_OPEN, TRUE, NL2)
        t6 == SubBraced(t5, S_SUBSUBSECTION_OPEN, TRUE, NL2)
        t7 == SubAny(t6, <<S_BEGIN_ITEMIZE, S_BEGIN_ENUMERATE,
                           S_END_ITEMIZE, S_END_ENUMERATE>>, NL2)
        t8 == Replace(t7, S_ITEM, <<"-", " ">>)
        t9 == Replace(t8, S_AMP_ESC, <<"&">>)
    IN  IF t9 = <<>> THEN <<>> ELSE SelectSeq(t9, LAMBDA c : c \notin {"{", "}"})

\* react_app._normalize_text: _strip_html, then the same ten substitutions
normalize_text(s) == normalize_latex(strip_html(s))

\* the normalizer of each application: gradio_app's _normalize_latex, react_app's
\* _normalize_text (which strips the tags first)
Normalize(app, s) == normalize_latex(IF app = "react" THEN strip_html(s) ELSE s)

----------------------------------------------------------------------------
(* Paragraph Segmenter *)

\* the end of a match of \n\s*\n starting at i (s[i] = "\n"), or 0: \s* is
\* greedy, so the match ends at the last newline of the whitespace run after i
BlankLineEnd(s, i) ==
    LET stop == IndexFrom(s, {c \in Range(s) : c \notin Whitespace}, i + 1)
        last == IF stop = 0 THEN Len(s) ELSE stop - 1
        nls  == {j \in (i + 1)..last : s[j] = "\n"}
    IN  IF nls = {} THEN 0 ELSE SetMax(nls)

\* re.split(r"\n\s*\n", s): the pieces between the matches
SplitBlank(s) ==
    IF s = <<>> THEN << <<>> >> ELSE
    LET ends == [j \in 1..Len(s) |->
                    IF s[j] = "\n" THEN BlankLineEnd(s, j) ELSE 0]
    IN  Between(s, MatchSpans(ends, 1))

StripAll(parts) == [i \in DOMAIN parts |-> Strip(parts[i])]

\* a faulty variant of paragraphs_from_text that drops the placeholder fallback
paragraphs_no_placeholder(app, s) ==
    SelectSeq(StripAll(SplitBlank(Normalize(app, s))), LAMBDA p : p # <<>>)

\* a faulty variant of paragraphs_from_text that filters but does not trim
paragraphs_untrimmed(app, s) ==
    LET ps == SelectSeq(SplitBlank(Normalize(app, s)), LAMBDA p : Strip(p) # <<>>)
    IN  IF ps = <<>> THEN <<S_NO_CONTENT>> ELSE ps

\* _paragraphs_from_text of react_app (app = "react") and gradio_app
paragraphs_from_text(app, s) ==
    LET ps == SelectSeq(StripAll(SplitBlank(Normalize(app, s))),
                        LAMBDA p : p # <<>>)
    IN  IF ps = <<>> THEN <<S_NO_CONTENT>> ELSE ps

----------------------------------------------------------------------------
(* Rendering *)

RAW_HTML_PREFIXES ==
    { <<"<","f","i","g","u","r","e">>, <<"<","i","m","g">>,
      <<"<","i","f","r","a","m","e">>, <<"<","v","i","d","e","o">>,
      <<"<","s","v","g">>, <<"<","t","a","b","l","e">>, <<"<","d","i","v">> }

looks_like_html_fragment(s) ==
    LET stripped == Strip(s)
    IN  /\ StartsWith(stripped, <<"<">>)
        /\ \E p \in RAW_HTML_PREFIXES : StartsWith(Lower(stripped), p)

\* html.escape(s), quote=True
EscapeChar(c) ==
    CASE c = "&"  -> <<"&","a","m","p",";">>
      [] c = "<"  -> <<"&","l","t",";">>
      [] c = ">"  -> <<"&","g","t",";">>
      [] c = "\"" -> <<"&","q","u","o","t",";">>
      [] c = "'"  -> <<"&","#","x","2","7",";">>
      [] OTHER    -> <<c>>

html_escape(s) == Concat([i \in DOMAIN s |-> EscapeChar(s[i])])

\* one snippet of _paragraphs_to_html
ParagraphSnippet(para, section_id, idx) ==
    IF looks_like_html_fragment(para)
    THEN S_DIV_ID \o section_id \o <<"-","p">> \o IntToStr(idx) \o S_DIV_CLASS
         \o S_SPAN_OPEN \o IntToStr(idx) \o S_SPAN_CLOSE \o Strip(para)
         \o S_DIV_CLOSE
    ELSE S_P_ID \o section_id \o <<"-","p">> \o IntToStr(idx) \o <<"'", ">">>
         \o S_SPAN_OPEN \o IntToStr(idx) \o S_SPAN_CLOSE \o html_escape(para)
         \o S_P_CLOSE

paragraphs_to_html(paragraphs, section_id) ==
    Join([i \in DOMAIN paragraphs |->
             ParagraphSnippet(paragraphs[i], section_id, i)], <<"\n">>)

----------------------------------------------------------------------------
(* Section Extractor *)

\* the position of the first heading or end marker at or after i, or 0: where the
\* lookahead (?=\\section\{|\\end\{document\}) first succeeds
NextStop(s, i) ==
    LET hits == {j \in i..Len(s) : \/ StartsWithAt(s, j, S_SECTION_OPEN)
                                   \/ StartsWithAt(s, j, S_END_DOCUMENT)}
    IN  IF hits = {} THEN 0 ELSE SetMin(hits)

\* the last index of the match of SECTION_PATTERN starting at j, or 0: the title
\* [^}]* runs to the first "}", the body .*? to just before the first position
\* where the lookahead succeeds; with no such position there is no match at j
SectionMatchEnd(s, j) ==
    LET k == IF StartsWithAt(s, j, S_SECTION_OPEN)
             THEN IndexFrom(s, {"}"}, j + Len(S_SECTION_OPEN))
             ELSE 0
        e == IF k = 0 THEN 0 ELSE NextStop(s, k + 1)
    IN  IF e = 0 THEN 0 ELSE e - 1

\* SECTION_PATTERN.finditer(s): each match as the raw title (group 1), the body
\* (group 2) and the body's span (match.start(2), match.end(2), counted from 0)
SECTION_PATTERN(s) ==
    IF s = <<>> THEN <<>> ELSE
    LET spans == MatchSpans([j \in 1..Len(s) |-> SectionMatchEnd(s, j)], 1)
    IN  [ n \in DOMAIN spans |->
            LET k == IndexFrom(s, {"}"}, spans[n].start + Len(S_SECTION_OPEN))
            IN  [ group1 |-> SubSeq(s, spans[n].start + Len(S_SECTION_OPEN), k - 1),
                  group2 |-> SubSeq(s, k + 1, spans[n].end),
                  start2 |-> k,
                  end2   |-> spans[n].end ] ]

SectionId(index) == S_SECTION_ID \o IntToStr(index)

SectionTitle(raw, index) ==
    IF Strip(raw) = <<>> THEN S_SECTION_SP \o IntToStr(index) ELSE Strip(raw)

\* a faulty variant of parse_sections that records the span from the closing
\* brace of the heading
parse_sections_span_from_brace(s) ==
    LET ms == SECTION_PATTERN(s)
    IN  [ index \in DOMAIN ms |->
            LET paragraphs == paragraphs_from_text("gradio", ms[index].group2)
            IN  [ id         |-> SectionId(index),
                  title      |-> SectionTitle(ms[index].group1, index),
                  paragraphs |-> paragraphs,
                  html       |-> paragraphs_to_html(paragraphs, SectionId(index)),
                  body       |-> ms[index].group2,
                  body_start |-> ms[index].start2 - 1,
                  body_end   |-> ms[index].end2 ] ]

\* gradio_app.parse_sections
parse_sections(s) ==
    LET ms == SECTION_PATTERN(s)
    IN  [ index \in DOMAIN ms |->
            LET paragraphs == paragraphs_from_text("gradio", ms[index].group2)
            IN  [ id         |-> SectionId(index),
                  title      |-> SectionTitle(ms[index].group1, index),
                  paragraphs |-> paragraphs,
                  html       |-> paragraphs_to_html(paragraphs, SectionId(index)),
                  body       |-> ms[index].group2,
                  body_start |-> ms[index].start2,
                  body_end   |-> ms[index].end2 ] ]

\* react_app.parse_sections
react_parse_sections(s) ==
    LET ms == SECTION_PATTERN(s)
    IN  [ index \in DOMAIN ms |->
            [ index |-> index,
              title |-> SectionTitle(ms[index].group1, index),
              html  |-> paragraphs_to_html(
                            paragraphs_from_text("react", ms[index].group2),
                            SectionId(index)) ] ]

\* react_app.sections_from_latex, given what parse_sections returned: the parsed
\* sections, or the single fallback section "Document" over the whole text
parsed_or_fallback(parsed, s) ==
    IF parsed # <<>> THEN parsed
    ELSE << [ index |-> 1,
              title |-> S_DOCUMENT,
              html  |-> paragraphs_to_html(paragraphs_from_text("react", s),
                                           SectionId(1)) ] >>

\* sections_from_latex without the fallback section
sections_from_latex_parsed_only(s) == react_parse_sections(s)

\* react_app.sections_from_latex
sections_from_latex(s) == parsed_or_fallback(react_parse_sections(s), s)

----------------------------------------------------------------------------
(* Diff Engine: compute_diff_html over difflib.HtmlDiff.make_table *)

LineBreaks == {"\n", "\r", "\f"}

\* str.splitlines(): ends[j] is the end of the line break starting at j ("\r\n"
\* is one break); a trailing break opens no further line
splitlines(s) ==
    IF s = <<>> THEN <<>> ELSE
    LET ends  == [j \in 1..Len(s) |->
                     IF s[j] \notin LineBreaks THEN 0
                     ELSE IF s[j] = "\r" /\ j < Len(s) /\ s[j + 1] = "\n"
                          THEN j + 1 ELSE j]
        spans == MatchSpans(ends, 1)
        parts == Between(s, spans)
    IN  IF spans # <<>> /\ spans[Len(spans)].end = Len(s)
        THEN SubSeq(parts, 1, Len(parts) - 1)
        ELSE parts

\* the length of the common run of a from i and b from j (offsets from 0) inside
\* a[:ahi], b[:bhi]
RECURSIVE CommonRun(_, _, _, _, _, _)
CommonRun(a, b, i, j, ahi, bhi) ==
    IF i < ahi /\ j < bhi /\ a[i + 1] = b[j + 1]
    THEN 1 + CommonRun(a, b, i + 1, j + 1, ahi, bhi)
    ELSE 0

\* SequenceMatcher.find_longest_match(alo, ahi, blo, bhi) without junk: the
\* longest block, the earliest in a, then the earliest in b; (alo, blo, 0) if none
find_longest_match(a, b, alo, ahi, blo, bhi) ==
    LET cands == {<<i, j>> \in (alo..(ahi - 1)) \X (blo..(bhi - 1)) :
                     a[i + 1] = b[j + 1]}
    IN  IF cands = {} THEN [i |-> alo, j |-> blo, size |-> 0]
        ELSE LET len(c) == CommonRun(a, b, c[1], c[2], ahi, bhi)
                 best == CHOOSE c \in cands :
                            \A d \in cands :
                               \/ len(c) > len(d)
                               \/ /\ len(c) = len(d)
                                  /\ \/ c[1] < d[1]
                                     \/ c[1] = d[1] /\ c[2] <= d[2]
             IN  [i |-> best[1], j |-> best[2], size |-> len(best)]

\* SequenceMatcher.get_matching_blocks, without the final sentinel
RECURSIVE matching_blocks(_, _, _, _, _, _)
matching_blocks(a, b, alo, ahi, blo, bhi) ==
    LET m == find_longest_match(a, b, alo, ahi, blo, bhi)
    IN  IF m.size = 0 THEN <<>>
        ELSE (IF alo < m.i /\ blo < m.j
              THEN matching_blocks(a, b, alo, m.i, blo, m.j) ELSE <<>>)
             \o <<m>>
             \o (IF m.i + m.size < ahi /\ m.j + m.size < bhi
                 THEN matching_blocks(a, b, m.i + m.size, ahi, m.j + m.size, bhi)
                 ELSE <<>>)

\* where the block before blocks[n] ends in a (PrevI) and in b (PrevJ)
PrevI(blocks, n) == IF n = 1 THEN 0 ELSE blocks[n - 1].i + blocks[n - 1].size
PrevJ(blocks, n) == IF n = 1 THEN 0 ELSE blocks[n - 1].j + blocks[n - 1].size

\* the opcode of the gap before blocks[n], if there is a gap
GapOpcode(blocks, n) ==
    IF PrevI(blocks, n) < blocks[n].i \/ PrevJ(blocks, n) < blocks[n].j
    THEN <<[tag |-> IF PrevI(blocks, n) < blocks[n].i /\ PrevJ(blocks, n) < blocks[n].j
                    THEN "replace"
                    ELSE IF PrevI(blocks, n) < blocks[n].i THEN "delete"
                    ELSE "insert",
            i1 |-> PrevI(blocks, n), i2 |-> blocks[n].i,
            j1 |-> PrevJ(blocks, n), j2 |-> blocks[n].j]>>
    ELSE <<>>

EqualOpcode(blocks, n) ==
    IF blocks[n].size = 0 THEN <<>>
    ELSE <<[tag |-> "equal",
            i1 |-> blocks[n].i, i2 |-> blocks[n].i + blocks[n].size,
            j1 |-> blocks[n].j, j2 |-> blocks[n].j + blocks[n].size]>>

\* SequenceMatcher.get_opcodes: (tag, i1, i2, j1, j2), the gap before each block
\* and then the block; the last block is the sentinel (len(a), len(b), 0)
get_opcodes(a, b) ==
    LET blocks == matching_blocks(a, b, 0, Len(a), 0, Len(b))
                  \o <<[i |-> Len(a), j |-> Len(b), size |-> 0]>>
    IN  Concat([n \in DOMAIN blocks |->
                   GapOpcode(blocks, n) \o EqualOpcode(blocks, n)])

\* HtmlDiff.make_table: the table is identified by the anchor prefixes made from
\* the class counter (_make_prefix: "from<n>_", "to<n>_") and holds the two line
\* lists and their opcodes; every row of an opcode other than "equal" carries a
\* diff_add, diff_sub or diff_chg span
make_table(fromlines, tolines, prefix) ==
    [ kind    |-> "table",
      prefix  |-> prefix,
      from    |-> fromlines,
      to      |-> tolines,
      opcodes |-> get_opcodes(fromlines, tolines) ]

DiffMessage(app) ==
    [ kind |-> "message",
      text |-> IF app = "react"
               THEN "Provide both original and working documents to view the diff."
               ELSE "Provide both primary and comparison documents to see the diff." ]

\* a faulty variant of compute_diff_html that refuses only when both texts are empty
compute_diff_html_both_empty(app, primary_text, compare_text, prefix) ==
    IF primary_text = <<>> /\ compare_text = <<>>
    THEN [out |-> DiffMessage(app), prefix |-> prefix]
    ELSE [out |-> make_table(splitlines(Normalize(app, primary_text)),
                             splitlines(Normalize(app, compare_text)),
                             prefix),
          prefix |-> prefix + 1]

\* a faulty variant of compute_diff_html that normalizes only the primary text
compute_diff_html_raw_compare(app, primary_text, compare_text, prefix) ==
    IF primary_text = <<>> \/ compare_text = <<>>
    THEN [out |-> DiffMessage(app), prefix |-> prefix]
    ELSE [out |-> make_table(splitlines(Normalize(app, primary_text)),
                             splitlines(compare_text),
                             prefix),
          prefix |-> prefix + 1]

\* compute_diff_html of react_app (app = "react") and gradio_app: the value
\* returned and HtmlDiff._default_prefix after the call
compute_diff_html(app, primary_text, compare_text, prefix) ==
    IF primary_text = <<>> \/ compare_text = <<>>
    THEN [out |-> DiffMessage(app), prefix |-> prefix]
    ELSE [out |-> make_table(splitlines(Normalize(app, primary_text)),
                             splitlines(Normalize(app, compare_text)),
                             prefix),
          prefix |-> prefix + 1]

\* the line markers of a diff: its opcodes other than "equal"
Markers(out) ==
    IF out.kind = "table"
    THEN {n \in DOMAIN out.opcodes : out.opcodes[n].tag # "equal"}
    ELSE {}

----------------------------------------------------------------------------
(* The text functions applied to bounded inputs *)

S_EXAMPLE == <<"\\","s","e","c","t","i","o","n","{","I","n","t","r","o","}","H","e","l","l","o"," ","w","o","r","l","d",".","\n","\n","\\","s","e","c","t","i","o","n","{","C","o","n","c","l","u","s","i","o","n","}","B","y","e",".">>

\* the fragments the input texts are built from
TextFrags ==
    { S_SECTION_OPEN, <<"}">>, S_END_DOCUMENT, <<"a">>, <<" ">>, <<"\n">>,
      <<"\\">>, <<"&">>, <<"{">>, <<"<">>, <<">">>, S_ITEM, S_TEXTBF_OPEN }

\* every concatenation of at most n fragments
RECURSIVE FragTexts(_)
FragTexts(n) ==
    IF n = 0 THEN {<<>>}
    ELSE LET shorter == FragTexts(n - 1)
         IN  shorter \cup {t \o f : t \in shorter, f \in TextFrags}

TextInputs == FragTexts(MaxFrags) \cup {S_EXAMPLE, S_EXAMPLE \o S_END_DOCUMENT}

Apps == {"react", "gradio"}

NoResult == [fn |-> "none", app |-> "none", value |-> <<>>]
NoResp == [op |-> "none"]
NoDiff == [app |-> "none", primary |-> <<>>, compare |-> <<>>, out |-> [kind |-> "none"]]

\* the request threads that may run store_topic_sections
Writers == {"a", "b"}

\* a thread that is not in store_topic_sections: pc is the position of the call,
\* the other fields are its locals (found: the select of the topic gave a row;
\* existing, existing_versions: the ids of the rows selected for deletion;
\* order: the sections inserted so far; last_id: the id of the last of them)
IdleCall ==
    [ pc |-> "idle", topic_name |-> <<>>, found |-> FALSE, topic_id |-> 0,
      data |-> <<>>, existing |-> {}, existing_versions |-> {}, order |-> 0,
      last_id |-> 0 ]

\* no store_topic_sections call is in progress
NoCall == [w \in Writers |-> IdleCall]

\* Python's None, a value no text equals
None == <<"None">>

\* no run has been called; the locals of run are unset. invoked holds the
\* conversations self.model.invoke was called with, answers what it returned,
\* passes how each subprocess.run of pdflatex ended
NoRun ==
    [ pc |-> "idle", calls_made |-> 0, topic |-> <<>>, compile_pdf |-> FALSE,
      history |-> <<>>, invoked |-> <<>>, answers |-> <<>>, state |-> <<>>,
      critique_state |-> <<>>,
      draft_body |-> None, improved_latex |-> None, latex_full |-> None,
      tex_path |-> None, pdf_path |-> None, passes |-> <<>>, returned |-> None ]

\* no file has been written
NoDisk == << >>

PipelineIdle == run = NoRun /\ disk = NoDisk

StoreIdle == /\ topics = {} /\ sections = {} /\ versions = {} /\ now = 0
             /\ resp = NoResp /\ store_call = NoCall

DiffIdle == default_prefix = 0 /\ diff_call = NoDiff

\* gradio_app before init_session: the initial values of the gr.State components
NoFile == [exists |-> FALSE, text |-> <<>>]
NoSession ==
    [ file |-> NoFile, sections |-> <<>>, latex |-> <<>>,
      original_latex |-> <<>>, comments |-> <<>>, working_versions |-> <<>>,
      original_versions |-> <<>>, original_sections |-> <<>> ]

GradioIdle == session = NoSession

TextInit ==
    /\ text \in TextInputs
    /\ result = NoResult
    /\ StoreIdle
    /\ PipelineIdle
    /\ DiffIdle
    /\ GradioIdle

TextFrame == UNCHANGED <<topics, sections, versions, now, resp, text,
                         default_prefix, diff_call, session, store_call, run,
                         disk>>

ParseSections ==
    /\ result = NoResult
    /\ result' = [fn |-> "parse_sections", app |-> "gradio",
                  value |-> parse_sections(text)]
    /\ TextFrame

NormalizeText ==
    /\ result = NoResult
    /\ \E app \in Apps :
          result' = [fn |-> "normalize", app |-> app,
                     value |-> Normalize(app, text)]
    /\ TextFrame

ParagraphsFromText ==
    /\ result = NoResult
    /\ \E app \in Apps :
          result' = [fn |-> "paragraphs_from_text", app |-> app,
                     value |-> paragraphs_from_text(app, text)]
    /\ TextFrame

TextNext == ParseSections \/ NormalizeText \/ ParagraphsFromText

SpecText == TextInit /\ [][TextNext]_vars

----------------------------------------------------------------------------
(* The diff engine called on bounded inputs *)

DiffLines ==
    { <<"a", "\n">>, <<"b", "\n">>, <<"{", "a", "}", "\n">>,
      <<"<", "i", ">", "b", "<", "/", "i", ">", "\n">> }

RECURSIVE LineTexts(_)
LineTexts(n) ==
    IF n = 0 THEN {<<>>}
    ELSE LET shorter == LineTexts(n - 1)
         IN  shorter \cup {t \o l : t \in shorter, l \in DiffLines}

DiffTexts == LineTexts(MaxDiffLen)

NoOut == [kind |-> "none"]

\* one process runs one application: the application and the two texts are drawn
\* at the start, and compute_diff_html is then called on them any number of times
DiffInit ==
    /\ default_prefix = 0
    /\ \E app \in Apps, primary \in DiffTexts, compare \in DiffTexts :
          diff_call = [app |-> app, primary |-> primary, compare |-> compare,
                       out |-> NoOut]
    /\ StoreIdle
    /\ PipelineIdle
    /\ GradioIdle
    /\ text = <<>>
    /\ result = NoResult

ComputeDiffHtml ==
    /\ LET r == compute_diff_html(diff_call.app, diff_call.primary,
                                  diff_call.compare, default_prefix)
       IN  /\ r.prefix <= MaxCalls
           /\ diff_call' = [diff_call EXCEPT !.out = r.out]
           /\ default_prefix' = r.prefix
    /\ UNCHANGED <<topics, sections, versions, now, resp, text, result, session,
                   store_call, run, disk>>

DiffNext == ComputeDiffHtml

SpecDiff == DiffInit /\ [][DiffNext]_vars

----------------------------------------------------------------------------
(* Section Store: the Topic, Section and SectionVersion tables of react_app and
   the handlers that write them.  Every handler runs in one database session;
   `now` is datetime.utcnow(), read once per handler and later at each handler. *)

S_TOPIC_PREFIX == <<"t","o","p","i","c",":">>
S_TEX_SUFFIX == <<".","t","e","x">>
S_DOCUMENT_SLUG == <<"d","o","c","u","m","e","n","t">>

ALNUM == Range(LOWER) \cup Range(DIGITS)

\* re.sub(r"[cs]+", repl, s): every maximal run of characters of cs becomes repl
SubRuns(s, cs, repl) ==
    IF s = <<>> THEN <<>> ELSE
    LET ends  == [j \in 1..Len(s) |->
                     IF s[j] \notin cs THEN 0
                     ELSE LET k == IndexFrom(s, Range(s) \ cs, j)
                          IN  IF k = 0 THEN Len(s) ELSE k - 1]
        spans == MatchSpans(ends, 1)
    IN  Substitute(s, spans, [k \in DOMAIN spans |-> repl])

\* str.strip(chars)
StripChars(s, cs) ==
    LET keep == {j \in DOMAIN s : s[j] \notin cs}
    IN  IF keep = {} THEN <<>> ELSE SubSeq(s, SetMin(keep), SetMax(keep))

EndsWith(s, p) == Len(p) <= Len(s) /\ StartsWithAt(s, Len(s) - Len(p) + 1, p)

\* slugify without its closing strip("_")
slugify_untrimmed(s) ==
    LET t1 == Lower(Strip(s))
        t2 == SubRuns(t1, Range(t1) \ ALNUM, <<"_">>)
        t3 == SubRuns(t2, {"_"}, <<"_">>)
    IN  IF t3 = <<>> THEN S_DOCUMENT_SLUG ELSE t3

\* pipeline.slugify
slugify(s) ==
    LET t1 == Lower(Strip(s))
        t2 == SubRuns(t1, Range(t1) \ ALNUM, <<"_">>)
        t3 == SubRuns(t2, {"_"}, <<"_">>)
        t4 == StripChars(t3, {"_"})
    IN  IF t4 = <<>> THEN S_DOCUMENT_SLUG ELSE t4

\* pathlib.Path(p).stem: the last path component without its last suffix (a dot
\* that opens or closes the name starts no suffix)
PathStem(p) ==
    LET ends == {j \in DOMAIN p : p[j] # "/"}
        name == IF ends = {} THEN <<>>
                ELSE LET e == SetMax(ends)
                         slashes == {j \in 1..e : p[j] = "/"}
                     IN  SubSeq(p, IF slashes = {} THEN 1 ELSE SetMax(slashes) + 1, e)
        dots == {j \in DOMAIN name : name[j] = "."}
    IN  IF dots # {} /\ SetMax(dots) > 1 /\ SetMax(dots) < Len(name)
        THEN SubSeq(name, 1, SetMax(dots) - 1)
        ELSE name

\* _slug_from_identifier without the removal of the topic: prefix
slug_from_identifier_keeps_prefix(identifier) ==
    LET ident == Strip(identifier)
        stem  == IF "/" \in Range(ident) \/ EndsWith(ident, S_TEX_SUFFIX)
                 THEN PathStem(ident)
                 ELSE ident
    IN  slugify(stem)

\* react_app._slug_from_identifier
slug_from_identifier(identifier) ==
    LET ident == Strip(identifier)
        rest  == IF StartsWith(ident, S_TOPIC_PREFIX)
                 THEN SubSeq(ident, Len(S_TOPIC_PREFIX) + 1, Len(ident))
                 ELSE ident
        stem  == IF "/" \in Range(rest) \/ EndsWith(rest, S_TEX_SUFFIX)
                 THEN PathStem(rest)
                 ELSE rest
    IN  slugify(stem)

\* the integer primary key the database gives a new row: sqlite (the default
\* DATABASE_URL) takes the largest rowid of the table plus one
NextId(rows) == IF rows = {} THEN 1 ELSE SetMax({r.id : r \in rows}) + 1

\* select(Topic).where(Topic.slug == slug): a set with at most one row
TopicBySlug(slug) == {tp \in topics : tp.slug = slug}

\* select(Section).where(topic_id == ..., order_index == ...)
SectionAt(rows, topic_id, order_index) ==
    {s \in rows : s.topic_id = topic_id /\ s.order_index = order_index}

\* react_app.topic_sections as the function order_index -> row
topic_sections(rows, topic_id) ==
    {s \in rows : s.topic_id = topic_id}

\* react_app.sections_payload, one section: the approved text when asked for and
\* truthy, the working text otherwise
PayloadHtml(sec, use_approved) ==
    IF use_approved /\ sec.approved_html # <<>>
    THEN sec.approved_html ELSE sec.html_content

\* the diff_html of react_app.build_session_response: section_diff_html on the
\* first section (original against working); the value holds HtmlDiff's counter
session_diff(rows, topic_id, prefix) ==
    LET secs == topic_sections(rows, topic_id)
    IN  IF secs = {}
        THEN [out |-> [kind |-> "message", text |-> "No sections available."],
              prefix |-> prefix]
        ELSE LET first == CHOOSE s \in secs :
                              \A o \in secs : s.order_index <= o.order_index
             IN  compute_diff_html("react", PayloadHtml(first, TRUE),
                                   PayloadHtml(first, FALSE), prefix)

\* the first half of store_topic_sections: the Topic row after the topic with
\* this slug was created or retitled
upsert_topic(slug, topic_name) ==
    LET found == TopicBySlug(slug)
        t     == now + 1
    IN  IF found = {}
        THEN [id |-> NextId(topics), slug |-> slug, title |-> topic_name,
              created_at |-> t, updated_at |-> t, status |-> "draft"]
        ELSE [(CHOOSE tp \in found : TRUE)
                 EXCEPT !.title = topic_name, !.updated_at = t]

\* the rows store_topic_sections inserts for the parsed sections `data`: one
\* Section and one "initial" SectionVersion each, with the ids that follow the
\* rows kept
new_sections(topic, data, base) ==
    { [id |-> base + order, topic_id |-> topic.id,
       order_index |-> order, title |-> data[order].title,
       html_content |-> data[order].html,
       approved_html |-> data[order].html,
       created_at |-> now + 1, updated_at |-> now + 1] : order \in DOMAIN data }

new_versions(data, base_s, base_v) ==
    { [id |-> base_v + order, section_id |-> base_s + order,
       label |-> "initial", html_content |-> data[order].html,
       created_at |-> now + 1] : order \in DOMAIN data }

\* a faulty variant of replace_sections that deletes the old sections and leaves
\* their versions
replace_sections_keep_versions(topic, data) ==
    LET existing_sections == topic_sections(sections, topic.id)
        kept_sections == sections \ existing_sections
    IN  [ topic    |-> topic,
          topics   |-> {tp \in topics : tp.id # topic.id} \cup {topic},
          sections |-> kept_sections \cup
                       new_sections(topic, data, NextId(kept_sections) - 1),
          versions |-> versions \cup
                       new_versions(data, NextId(kept_sections) - 1,
                                    NextId(versions) - 1) ]

\* the second half of store_topic_sections: the sections of the topic and their
\* versions are deleted, and one section with one "initial" version is inserted
\* per parsed section, in order
replace_sections(topic, data) ==
    LET existing_sections == topic_sections(sections, topic.id)
        kept_sections == sections \ existing_sections
        kept_versions == {v \in versions :
                             \A sec \in existing_sections : v.section_id # sec.id}
    IN  [ topic    |-> topic,
          topics   |-> {tp \in topics : tp.id # topic.id} \cup {topic},
          sections |-> kept_sections \cup
                       new_sections(topic, data, NextId(kept_sections) - 1),
          versions |-> kept_versions \cup
                       new_versions(data, NextId(kept_sections) - 1,
                                    NextId(kept_versions) - 1) ]

\* react_app.store_topic_sections: the tables after the call and the topic
\* returned
store_topic_sections(topic_name, latex_text) ==
    replace_sections(upsert_topic(slugify(topic_name), topic_name),
                     sections_from_latex(latex_text))

\* the rows of a set in ascending order of order_index (ORDER BY order_index)
RECURSIVE OrderByIndex(_)
OrderByIndex(rows) ==
    IF rows = {} THEN <<>>
    ELSE LET first == CHOOSE s \in rows :
                          \A o \in rows : s.order_index < o.order_index
                                          \/ (s.order_index = o.order_index /\ s.id <= o.id)
         IN  <<first>> \o OrderByIndex(rows \ {first})

\* react_app.sections_payload over the topic's sections
sections_payload(rows, topic_id, use_approved) ==
    LET secs == OrderByIndex(topic_sections(rows, topic_id))
    IN  [ n \in DOMAIN secs |->
            [ index |-> secs[n].order_index,
              title |-> secs[n].title,
              html  |-> PayloadHtml(secs[n], use_approved) ] ]

\* react_app.render_document_html: after the style block, one block per section
\* with the heading "index. title" (escaped) and the section's html
render_document_html(payload) ==
    [ n \in DOMAIN payload |->
        [ heading |-> IntToStr(payload[n].index) \o <<".", " ">>
                          \o html_escape(payload[n].title),
          html    |-> payload[n].html ] ]

\* a faulty variant of section_diff_html that compares the working text with itself
section_diff_html_working_twice(section_index, working_sections, original_sections, prefix) ==
    IF \A n \in DOMAIN working_sections : working_sections[n].index # section_index
    THEN [out |-> [kind |-> "message", text |-> "Working section not found."],
          prefix |-> prefix]
    ELSE compute_diff_html("react",
             working_sections[SetMin({n \in DOMAIN working_sections :
                 working_sections[n].index = section_index})].html,
             working_sections[SetMin({n \in DOMAIN working_sections :
                 working_sections[n].index = section_index})].html,
             prefix)

\* react_app.section_diff_html: the value returned and HtmlDiff._default_prefix
\* after the call
section_diff_html(section_index, working_sections, original_sections, prefix) ==
    IF \A n \in DOMAIN working_sections : working_sections[n].index # section_index
    THEN [out |-> [kind |-> "message", text |-> "Working section not found."],
          prefix |-> prefix]
    ELSE IF \A n \in DOMAIN original_sections :
                original_sections[n].index # section_index
    THEN [out |-> [kind |-> "message",
                   text |-> "Original section not available for diff."],
          prefix |-> prefix]
    ELSE compute_diff_html("react",
             original_sections[SetMin({n \in DOMAIN original_sections :
                 original_sections[n].index = section_index})].html,
             working_sections[SetMin({n \in DOMAIN working_sections :
                 working_sections[n].index = section_index})].html,
             prefix)

\* the versions of the topic's sections, latest first (ORDER BY created_at DESC);
\* the rows one handler stamps with the same clock value were created one after
\* the other, in the order of their ids
RECURSIVE OrderByCreatedDesc(_)
OrderByCreatedDesc(rows) ==
    IF rows = {} THEN <<>>
    ELSE LET first == CHOOSE v \in rows :
                          \A o \in rows : v.created_at > o.created_at
                                          \/ (v.created_at = o.created_at /\ v.id >= o.id)
         IN  <<first>> \o OrderByCreatedDesc(rows \ {first})

working_versions(srows, vrows, topic_id) ==
    LET secs == topic_sections(srows, topic_id)
        vers == OrderByCreatedDesc({v \in vrows : \E s \in secs : s.id = v.section_id})
    IN  [ n \in DOMAIN vers |->
            [ title     |-> (CHOOSE s \in secs : s.id = vers[n].section_id).title,
              label     |-> vers[n].label,
              timestamp |-> vers[n].created_at ] ]

\* react_app.build_session_response for the topic row, given the diff of the
\* first section
build_session_response(topic, srows, vrows, diff) ==
    [ context_path      |-> topic.slug,
      sections          |-> sections_payload(srows, topic.id, FALSE),
      original_sections |-> sections_payload(srows, topic.id, TRUE),
      sections_html     |-> render_document_html(sections_payload(srows, topic.id, FALSE)),
      original_html     |-> render_document_html(sections_payload(srows, topic.id, TRUE)),
      diff_html         |-> diff.out,
      working_versions  |-> working_versions(srows, vrows, topic.id),
      original_versions |-> << [ name |-> "Approved Baseline",
                                 timestamp |-> topic.updated_at ] >> ]

\* the fields of two records together, the first record's value where both have
\* the field
Merge(a, b) ==
    [ k \in DOMAIN a \cup DOMAIN b |-> IF k \in DOMAIN a THEN a[k] ELSE b[k] ]

\* what a handler that raised HTTPException(404) leaves
NotFound(detail) ==
    [status |-> 404, detail |-> detail]

\* a faulty variant of save_section that also overwrites the approved text
save_section_sets_approved(context_path, section_index, new_body) ==
    LET found == TopicBySlug(slug_from_identifier(context_path))
    IN  IF found = {} THEN NotFound("Topic not found.")
        ELSE
        LET topic == CHOOSE tp \in found : TRUE
            secs  == SectionAt(sections, topic.id, section_index)
        IN  IF secs = {} THEN NotFound("Section not found.")
            ELSE
            LET section == CHOOSE s \in secs : TRUE
                t == now + 1
            IN  [status |-> 200, topic |-> topic,
                 topics |-> topics,
                 sections |-> (sections \ {section}) \cup
                     {[section EXCEPT !.html_content = new_body,
                                      !.approved_html = new_body,
                                      !.updated_at = t]},
                 versions |-> versions \cup
                     {[id |-> NextId(versions), section_id |-> section.id,
                       label |-> "working", html_content |-> new_body,
                       created_at |-> t]}]

\* a faulty variant of save_section that keeps only the latest "working" version of
\* the section
save_section_replaces_version(context_path, section_index, new_body) ==
    LET found == TopicBySlug(slug_from_identifier(context_path))
    IN  IF found = {} THEN NotFound("Topic not found.")
        ELSE
        LET topic == CHOOSE tp \in found : TRUE
            secs  == SectionAt(sections, topic.id, section_index)
        IN  IF secs = {} THEN NotFound("Section not found.")
            ELSE
            LET section == CHOOSE s \in secs : TRUE
                t == now + 1
            IN  [status |-> 200, topic |-> topic,
                 topics |-> topics,
                 sections |-> (sections \ {section}) \cup
                     {[section EXCEPT !.html_content = new_body,
                                      !.updated_at = t]},
                 versions |->
                     {v \in versions : ~(v.section_id = section.id
                                         /\ v.label = "working")} \cup
                     {[id |-> NextId(versions), section_id |-> section.id,
                       label |-> "working", html_content |-> new_body,
                       created_at |-> t]}]

\* a faulty variant of save_section that stores the body as a new section when
\* the topic has no section at the index
save_section_creates_section(context_path, section_index, new_body) ==
    LET found == TopicBySlug(slug_from_identifier(context_path))
    IN  IF found = {} THEN NotFound("Topic not found.")
        ELSE
        LET topic == CHOOSE tp \in found : TRUE
            secs  == SectionAt(sections, topic.id, section_index)
            t     == now + 1
        IN  IF secs = {}
            THEN [status |-> 200, topic |-> topic,
                  topics |-> topics,
                  sections |-> sections \cup
                      {[id |-> NextId(sections), topic_id |-> topic.id,
                        order_index |-> section_index, title |-> S_DOCUMENT,
                        html_content |-> new_body, approved_html |-> new_body,
                        created_at |-> t, updated_at |-> t]},
                  versions |-> versions \cup
                      {[id |-> NextId(versions), section_id |-> NextId(sections),
                        label |-> "working", html_content |-> new_body,
                        created_at |-> t]}]
            ELSE
            LET section == CHOOSE s \in secs : TRUE
            IN  [status |-> 200, topic |-> topic,
                 topics |-> topics,
                 sections |-> (sections \ {section}) \cup
                     {[section EXCEPT !.html_content = new_body,
                                      !.updated_at = t]},
                 versions |-> versions \cup
                     {[id |-> NextId(versions), section_id |-> section.id,
                       label |-> "working", html_content |-> new_body,
                       created_at |-> t]}]

\* save_section without the version it appends
save_section_no_version(context_path, section_index, new_body) ==
    LET found == TopicBySlug(slug_from_identifier(context_path))
    IN  IF found = {} THEN NotFound("Topic not found.")
        ELSE
        LET topic == CHOOSE tp \in found : TRUE
            secs  == SectionAt(sections, topic.id, section_index)
        IN  IF secs = {} THEN NotFound("Section not found.")
            ELSE
            LET section == CHOOSE s \in secs : TRUE
                t == now + 1
            IN  [status |-> 200, topic |-> topic,
                 topics |-> topics,
                 sections |-> (sections \ {section}) \cup
                     {[section EXCEPT !.html_content = new_body,
                                      !.updated_at = t]},
                 versions |-> versions]

\* react_app.save_section up to the commit: the status and the tables after it
save_section(context_path, section_index, new_body) ==
    LET found == TopicBySlug(slug_from_identifier(context_path))
    IN  IF found = {} THEN NotFound("Topic not found.")
        ELSE
        LET topic == CHOOSE tp \in found : TRUE
            secs  == SectionAt(sections, topic.id, section_index)
        IN  IF secs = {} THEN NotFound("Section not found.")
            ELSE
            LET section == CHOOSE s \in secs : TRUE
                t == now + 1
            IN  [status |-> 200, topic |-> topic,
                 topics |-> topics,
                 sections |-> (sections \ {section}) \cup
                     {[section EXCEPT !.html_content = new_body,
                                      !.updated_at = t]},
                 versions |-> versions \cup
                     {[id |-> NextId(versions), section_id |-> section.id,
                       label |-> "working", html_content |-> new_body,
                       created_at |-> t]}]

\* a faulty variant of promote_document that records no version
promote_document_no_version(context_path, section_index) ==
    LET found == TopicBySlug(slug_from_identifier(context_path))
    IN  IF found = {} THEN NotFound("Topic not found.")
        ELSE
        LET topic == CHOOSE tp \in found : TRUE
            secs  == SectionAt(sections, topic.id, section_index)
        IN  IF secs = {} THEN NotFound("Section not found.")
            ELSE
            LET section == CHOOSE s \in secs : TRUE
                t == now + 1
            IN  [status |-> 200, topic |-> topic,
                 topics |-> (topics \ {topic}) \cup
                     {[topic EXCEPT !.updated_at = t]},
                 sections |-> (sections \ {section}) \cup
                     {[section EXCEPT !.approved_html = section.html_content,
                                      !.updated_at = t]},
                 versions |-> versions]

\* react_app.promote_document up to the commit: the status and the tables after it
promote_document(context_path, section_index) ==
    LET found == TopicBySlug(slug_from_identifier(context_path))
    IN  IF found = {} THEN NotFound("Topic not found.")
        ELSE
        LET topic == CHOOSE tp \in found : TRUE
            secs  == SectionAt(sections, topic.id, section_index)
        IN  IF secs = {} THEN NotFound("Section not found.")
            ELSE
            LET section == CHOOSE s \in secs : TRUE
                t == now + 1
            IN  [status |-> 200, topic |-> topic,
                 topics |-> (topics \ {topic}) \cup
                     {[topic EXCEPT !.updated_at = t]},
                 sections |-> (sections \ {section}) \cup
                     {[section EXCEPT !.approved_html = section.html_content,
                                      !.updated_at = t]},
                 versions |-> versions \cup
                     {[id |-> NextId(versions), section_id |-> section.id,
                       label |-> "approved",
                       html_content |-> section.html_content,
                       created_at |-> t]}]

----------------------------------------------------------------------------
(* Spec: the section store driven by its handlers *)

S_TOPIC_A == <<"A"," ","b">>
S_TOPIC_B == <<" ","a","-","B","!">>
S_TOPIC_C == <<"c">>

\* the topic names requested: the first two have the slug a_b
TopicNames == {S_TOPIC_A, S_TOPIC_B, S_TOPIC_C}

\* the LaTeX the research pipeline may write: a document of two sections, and a
\* text without a section heading
LatexDocs == {S_EXAMPLE \o S_END_DOCUMENT, <<"a", "&", "b">>}

\* the context_path values of the requests: a topic: identifier and a file path
ContextPaths == { S_TOPIC_PREFIX \o S_TOPIC_C,
                  <<"r","/","a","_","b">> \o S_TEX_SUFFIX }

SectionIndexes == 1..2

Bodies == {<<"x">>, <<>>}

Init ==
    /\ StoreIdle
    /\ PipelineIdle
    /\ DiffIdle
    /\ GradioIdle
    /\ text = <<>>
    /\ result = NoResult

StoreFrame == UNCHANGED <<text, result, diff_call, session, store_call, run,
                          disk>>

\* POST /topics/generate: the pipeline writes a document, store_topic_sections
\* stores it
GenerateTopic ==
    /\ now < MaxTime
    /\ \E topic_name \in TopicNames, latex_text \in LatexDocs :
       \E r \in {store_topic_sections(topic_name, latex_text)} :
          /\ topics' = r.topics
          /\ sections' = r.sections
          /\ versions' = r.versions
          /\ now' = now + 1
          /\ resp' = [op |-> "generate_topic", status |-> 200,
                      context_path |-> r.topic.slug, topic |-> topic_name,
                      latex_text |-> latex_text]
    /\ UNCHANGED default_prefix
    /\ StoreFrame

\* POST /document/regenerate: as generate, then build_session_response
Regenerate ==
    /\ now < MaxTime
    /\ \E topic_name \in TopicNames, latex_text \in LatexDocs :
       \E r \in {store_topic_sections(topic_name, latex_text)} :
       \E d \in {session_diff(r.sections, r.topic.id, default_prefix)} :
          /\ topics' = r.topics
          /\ sections' = r.sections
          /\ versions' = r.versions
          /\ now' = now + 1
          /\ default_prefix' = d.prefix
          /\ resp' = Merge([op |-> "regenerate", status |-> 200,
                            topic |-> topic_name, latex_text |-> latex_text],
                           build_session_response(r.topic, r.sections,
                                                  r.versions, d))
    /\ StoreFrame

\* what a handler that raised HTTPException answers: nothing is committed
Raised(op, r) ==
    /\ resp' = [op |-> op, status |-> r.status, detail |-> r.detail]
    /\ UNCHANGED <<topics, sections, versions, now, default_prefix>>

\* the commit of a handler and its build_session_response, whose diff advances
\* HtmlDiff's counter
Committed(r, answer) ==
    /\ now < MaxTime
    /\ \E d \in {session_diff(r.sections, r.topic.id, default_prefix)} :
          /\ default_prefix' = d.prefix
          /\ resp' = Merge(answer,
                           build_session_response(
                               CHOOSE tp \in r.topics : tp.id = r.topic.id,
                               r.sections, r.versions, d))
    /\ topics' = r.topics
    /\ sections' = r.sections
    /\ versions' = r.versions
    /\ now' = now + 1

\* POST /section/save
SaveSection ==
    /\ \E context_path \in ContextPaths, section_index \in SectionIndexes,
          new_body \in Bodies :
       \E r \in {save_section(context_path, section_index, new_body)} :
          IF r.status # 200 THEN Raised("save_section", r)
          ELSE Committed(r, [op |-> "save_section", status |-> 200,
                             section_index |-> section_index,
                             new_body |-> new_body])
    /\ StoreFrame

\* POST /document/promote
PromoteDocument ==
    /\ \E context_path \in ContextPaths, section_index \in SectionIndexes :
       \E r \in {promote_document(context_path, section_index)} :
          IF r.status # 200 THEN Raised("promote_document", r)
          ELSE Committed(r, [op |-> "promote_document", status |-> 200,
                             section_index |-> section_index])
    /\ StoreFrame

Next ==
    \/ GenerateTopic
    \/ Regenerate
    \/ SaveSection
    \/ PromoteDocument

Spec == Init /\ [][Next]_vars

----------------------------------------------------------------------------
(* SpecApi: the store with the handlers that read it *)

S_IMPROVE_READABILITY == <<"I","m","p","r","o","v","e"," ","c","l","a","r","i","t","y"," ","a","n","d"," ","r","e","a","d","a","b","i","l","i","t","y",".">>

\* the instruction of a rewrite request (an absent instruction behaves as the
\* empty one) and the message of an edit request
Instructions == {<<>>, <<" ">>, <<"x">>}

\* what the language model may answer to a rewrite prompt
Contents == {<<"y">>, <<" ">>}

\* what the language model may answer to an edit prompt: text that is not JSON,
\* or a JSON object with this html
EditAnswers ==
    { [json |-> FALSE, html |-> <<>>], [json |-> TRUE, html |-> <<>>],
      [json |-> TRUE, html |-> <<"y">>] }

HttpError(status, detail) == [status |-> status, detail |-> detail]

\* react_app.llm_rewrite; content is the model's answer to the prompt built from
\* the directive and the section's html
llm_rewrite(context_path, section_index, instruction, content) ==
    LET found == TopicBySlug(slug_from_identifier(context_path))
    IN  IF found = {} THEN NotFound("Topic not found.")
        ELSE IF SectionAt(sections, (CHOOSE tp \in found : TRUE).id,
                          section_index) = {}
        THEN NotFound("Section not found.")
        ELSE IF Strip(content) = <<>>
        THEN HttpError(500, "LLM returned no content.")
        ELSE [ status    |-> 200,
               directive |-> IF instruction # <<>> THEN Strip(instruction)
                             ELSE S_IMPROVE_READABILITY,
               body      |-> Strip(content) ]

\* react_app.deepagent_edit; answer is the model's answer to the edit prompt
deepagent_edit(context_path, section_index, message, answer) ==
    LET found == TopicBySlug(slug_from_identifier(context_path))
    IN  IF found = {} THEN NotFound("Topic not found.")
        ELSE IF SectionAt(sections, (CHOOSE tp \in found : TRUE).id,
                          section_index) = {}
        THEN NotFound("Section not found.")
        ELSE IF Strip(message) = <<>>
        THEN HttpError(400, "Provide an instruction for the DeepAgent.")
        ELSE IF ~answer.json
        THEN HttpError(500, "DeepAgent returned an unexpected format. Please try again with more detail.")
        ELSE IF Strip(answer.html) = <<>>
        THEN HttpError(500, "DeepAgent did not return updated HTML.")
        ELSE [ status    |-> 200,
               directive |-> Strip(message),
               html      |-> Strip(answer.html) ]

\* the answer of a handler that changes no table
Answered(answer, prefix) ==
    /\ resp' = answer
    /\ default_prefix' = prefix
    /\ UNCHANGED <<topics, sections, versions, now>>

\* POST /session/init
InitSession ==
    /\ \E context_path \in ContextPaths :
       \E found \in {TopicBySlug(slug_from_identifier(context_path))} :
          IF found = {}
          THEN Answered([op |-> "init_session", status |-> 404,
                         detail |-> "Topic not found."], default_prefix)
          ELSE \E topic \in found :
               \E d \in {session_diff(sections, topic.id, default_prefix)} :
                  /\ d.prefix <= MaxCalls
                  /\ Answered(Merge([op |-> "init_session", status |-> 200],
                                    build_session_response(topic, sections,
                                                           versions, d)),
                              d.prefix)
    /\ StoreFrame

\* POST /section/diff
SectionDiff ==
    /\ \E context_path \in ContextPaths, section_index \in SectionIndexes :
       \E found \in {TopicBySlug(slug_from_identifier(context_path))} :
          IF found = {}
          THEN Answered([op |-> "section_diff", status |-> 404,
                         detail |-> "Topic not found."], default_prefix)
          ELSE \E topic \in found :
               \E d \in {section_diff_html(section_index,
                             sections_payload(sections, topic.id, FALSE),
                             sections_payload(sections, topic.id, TRUE),
                             default_prefix)} :
                  /\ d.prefix <= MaxCalls
                  /\ Answered([op |-> "section_diff", status |-> 200,
                               context_path |-> topic.slug,
                               section_index |-> section_index,
                               diff_html |-> d.out],
                              d.prefix)
    /\ StoreFrame

\* POST /section/llm_rewrite
LlmRewrite ==
    /\ \E context_path \in ContextPaths, section_index \in SectionIndexes,
          instruction \in Instructions, content \in Contents :
       \E r \in {llm_rewrite(context_path, section_index, instruction, content)} :
          Answered(Merge([op |-> "llm_rewrite", instruction |-> instruction], r),
                   default_prefix)
    /\ StoreFrame

\* POST /section/deepagent_edit
DeepAgentEdit ==
    /\ \E context_path \in ContextPaths, section_index \in SectionIndexes,
          message \in Instructions, answer \in EditAnswers :
       \E r \in {deepagent_edit(context_path, section_index, message, answer)} :
          Answered(Merge([op |-> "deepagent_edit", instruction |-> message], r),
                   default_prefix)
    /\ StoreFrame

ApiNext ==
    \/ GenerateTopic
    \/ SaveSection
    \/ PromoteDocument
    \/ InitSession
    \/ SectionDiff

SpecApi == Init /\ [][ApiNext]_vars

\* the store with the handlers that ask the language model
LlmNext ==
    \/ GenerateTopic
    \/ LlmRewrite
    \/ DeepAgentEdit

SpecLlm == Init /\ [][LlmNext]_vars

----------------------------------------------------------------------------
(* SpecCommits: store_topic_sections commit by commit, and POST /session/init
   served by another database session in between.
   SpecRace: two store_topic_sections calls in two request threads *)

\* each request thread has a database session of its own; a select sees the rows
\* committed so far, and the rows a session has added or deleted reach the
\* tables at its next commit. store_topic_sections commits after the topic row,
\* after the deletions, after each Section row, and at the end; the refresh that
\* follows a commit is taken with the commit.

CallFrame == UNCHANGED <<text, result, diff_call, session, default_prefix, resp,
                         run, disk>>

\* the calls that have started and not ended
Active == {w \in Writers : store_call[w].pc \notin {"idle", "returned", "raised"}}

\* the call starts: the text is parsed and the topic is looked up by its slug
StoreBegin(w) ==
    /\ store_call[w].pc \in {"idle", "returned", "raised"}
    /\ now + Cardinality(Active) < MaxCalls
    /\ \E topic_name \in TopicNames, latex_text \in LatexDocs :
          store_call' =
              [store_call EXCEPT ![w] =
                  [IdleCall EXCEPT !.pc = "upsert", !.topic_name = topic_name,
                                   !.data = sections_from_latex(latex_text),
                                   !.found = TopicBySlug(slugify(topic_name)) # {}]]
    /\ UNCHANGED <<topics, sections, versions, now>>
    /\ CallFrame

\* the topic row is inserted or retitled: the first commit. The insert of a slug
\* that another session has inserted meanwhile breaks the unique index: the
\* commit raises and the call ends
StoreTopic(w) ==
    /\ store_call[w].pc = "upsert"
    /\ \E slug \in {slugify(store_call[w].topic_name)} :
          IF ~store_call[w].found /\ TopicBySlug(slug) # {}
          THEN /\ store_call' = [store_call EXCEPT ![w].pc = "raised"]
               /\ now' = now + 1
               /\ UNCHANGED topics
          ELSE \E topic \in {upsert_topic(slug, store_call[w].topic_name)} :
               /\ topics' = {tp \in topics : tp.id # topic.id} \cup {topic}
               /\ store_call' = [store_call EXCEPT ![w].pc = "select",
                                                   ![w].topic_id = topic.id]
               /\ UNCHANGED now
    /\ UNCHANGED <<sections, versions>>
    /\ CallFrame

\* the topic's sections and their versions are selected
StoreSelect(w) ==
    /\ store_call[w].pc = "select"
    /\ \E existing \in {{s.id : s \in topic_sections(sections, store_call[w].topic_id)}} :
          store_call' =
              [store_call EXCEPT
                  ![w].pc = "delete",
                  ![w].existing = existing,
                  ![w].existing_versions =
                      {v.id : v \in {x \in versions : x.section_id \in existing}}]
    /\ UNCHANGED <<topics, sections, versions, now>>
    /\ CallFrame

\* the rows selected are deleted by their ids: the second commit
StoreDelete(w) ==
    /\ store_call[w].pc = "delete"
    /\ sections' = {s \in sections : s.id \notin store_call[w].existing}
    /\ versions' = {v \in versions : v.id \notin store_call[w].existing_versions}
    /\ store_call' = [store_call EXCEPT ![w].pc = "insert"]
    /\ UNCHANGED <<topics, now>>
    /\ CallFrame

\* the "initial" version of the section the call inserted last, which its next
\* commit writes
PendingVersion(w) ==
    IF store_call[w].order = 0 THEN {}
    ELSE { [id |-> NextId(versions), section_id |-> store_call[w].last_id,
            label |-> "initial",
            html_content |-> store_call[w].data[store_call[w].order].html,
            created_at |-> now + 1] }

\* the next Section row is inserted and committed, and with it the version added
\* for the section before
StoreSection(w) ==
    /\ store_call[w].pc = "insert"
    /\ store_call[w].order < Len(store_call[w].data)
    /\ sections' = sections \cup
           { [id |-> NextId(sections), topic_id |-> store_call[w].topic_id,
              order_index |-> store_call[w].order + 1,
              title |-> store_call[w].data[store_call[w].order + 1].title,
              html_content |-> store_call[w].data[store_call[w].order + 1].html,
              approved_html |-> store_call[w].data[store_call[w].order + 1].html,
              created_at |-> now + 1, updated_at |-> now + 1] }
    /\ versions' = versions \cup PendingVersion(w)
    /\ store_call' = [store_call EXCEPT ![w].order = @ + 1,
                                        ![w].last_id = NextId(sections)]
    /\ UNCHANGED <<topics, now>>
    /\ CallFrame

\* the last commit writes the version of the last section; the call returns
StoreReturn(w) ==
    /\ store_call[w].pc = "insert"
    /\ store_call[w].order = Len(store_call[w].data)
    /\ versions' = versions \cup PendingVersion(w)
    /\ store_call' = [store_call EXCEPT ![w].pc = "returned"]
    /\ now' = now + 1
    /\ UNCHANGED <<topics, sections>>
    /\ CallFrame

\* one thread stores topics, another serves POST /session/init
CommitNext ==
    \/ StoreBegin("a")
    \/ StoreTopic("a")
    \/ StoreSelect("a")
    \/ StoreDelete("a")
    \/ StoreSection("a")
    \/ StoreReturn("a")
    \/ InitSession

SpecCommits == Init /\ [][CommitNext]_vars

\* two threads store topics
RaceNext ==
    \E w \in Writers :
        \/ StoreBegin(w)
        \/ StoreTopic(w)
        \/ StoreSelect(w)
        \/ StoreDelete(w)
        \/ StoreSection(w)
        \/ StoreReturn(w)

SpecRace == Init /\ [][RaceNext]_vars

----------------------------------------------------------------------------
(* pipeline: the document ResearchPipeline.run writes *)

\* a character outside ASCII and one ASCII control character: a text may hold any
\* character; a control character, the grave accent and a character outside ASCII
\* are written U+ and their code
S_E_ACUTE == "U+00E9"
S_BELL == "U+0007"

\* the range \x00-\x7F of the character class of filter_latex_safe
ASCII ==
    { "U+0000", "U+0001", "U+0002", "U+0003", "U+0004", "U+0005", "U+0006",
      "U+0007", "U+0008", "\t", "\n", "U+000B", "\f", "\r", "U+000E", "U+000F",
      "U+0010", "U+0011", "U+0012", "U+0013", "U+0014", "U+0015", "U+0016",
      "U+0017", "U+0018", "U+0019", "U+001A", "U+001B", "U+001C", "U+001D",
      "U+001E", "U+001F", " ", "!", "\"", "#", "$", "%", "&", "'", "(", ")",
      "*", "+", ",", "-", ".", "/", "0", "1", "2", "3", "4", "5", "6", "7",
      "8", "9", ":", ";", "<", "=", ">", "?", "@", "A", "B", "C", "D", "E",
      "F", "G", "H", "I", "J", "K", "L", "M", "N", "O", "P", "Q", "R", "S",
      "T", "U", "V", "W", "X", "Y", "Z", "[", "\\", "]", "^", "_", "U+0060", "a",
      "b", "c", "d", "e", "f", "g", "h", "i", "j", "k", "l", "m", "n", "o",
      "p", "q", "r", "s", "t", "u", "v", "w", "x", "y", "z", "{", "|", "}",
      "~", "U+007F" }

\* the characters the class lists one by one
LISTED ==
    { "\n", "\r", "\t", "\\", "{", "}", "[", "]", "$", "%", "&", "#", "_", "^",
      "~", "|", "<", ">", "/", "a", "b", "c", "d", "e", "f", "g", "h", "i",
      "j", "k", "l", "m", "n", "o", "p", "q", "r", "s", "t", "u", "v", "w",
      "x", "y", "z", "A", "B", "C", "D", "E", "F", "G", "H", "I", "J", "K",
      "L", "M", "N", "O", "P", "Q", "R", "S", "T", "U", "V", "W", "X", "Y",
      "Z", "0", "1", "2", "3", "4", "5", "6", "7", "8", "9", ".", ",", ":",
      ";", "!", "?", "-", "+", "*", "=", "(", ")", " " }

S_PREAMBLE_HEAD ==
    <<"\\","d","o","c","u","m","e","n","t","c","l","a","s","s","[","1","1",
      "p","t","]","{","a","r","t","i","c","l","e","}","\n","\\","u","s","e",
      "p","a","c","k","a","g","e","[","a","4","p","a","p","e","r",",","m","a",
      "r","g","i","n","=","1","i","n","]","{","g","e","o","m","e","t","r","y",
      "}","\n","\\","u","s","e","p","a","c","k","a","g","e","{","t","i","t",
      "l","e","s","e","c","}","\n","\\","u","s","e","p","a","c","k","a","g",
      "e","{","e","n","u","m","i","t","e","m","}","\n","\\","u","s","e","p",
      "a","c","k","a","g","e","{","c","o","u","r","i","e","r","}","\n","\\",
      "u","s","e","p","a","c","k","a","g","e","{","l","i","s","t","i","n","g",
      "s","}","\n","\\","u","s","e","p","a","c","k","a","g","e","{","x","c",
      "o","l","o","r","}","\n","\\","u","s","e","p","a","c","k","a","g","e",
      "{","h","y","p","e","r","r","e","f","}","\n","\\","u","s","e","p","a",
      "c","k","a","g","e","{","t","i","k","z","}","\n","\n","\\","t","i","t",
      "l","e","{">>

S_PREAMBLE_BODY ==
    <<"}","\n","\\","a","u","t","h","o","r","{","D","e","e","p","A","g","e",
      "n","t","s"," ","R","e","s","e","a","r","c","h"," ","P","i","p","e","l",
      "i","n","e","}","\n","\\","d","a","t","e","{","\\","t","o","d","a","y",
      "}","\n","\n","\\","b","e","g","i","n","{","d","o","c","u","m","e","n",
      "t","}","\n","\\","m","a","k","e","t","i","t","l","e","\n","\\","t","a",
      "b","l","e","o","f","c","o","n","t","e","n","t","s","\n","\\","n","e",
      "w","p","a","g","e","\n","\n","%"," ","T","h","e"," ","f","o","l","l",
      "o","w","i","n","g"," ","c","o","n","t","e","n","t"," ","i","s"," ","a",
      "u","t","o","-","g","e","n","e","r","a","t","e","d","."," ","R","e","m",
      "o","v","e"," ","a","n","y"," ","a","g","e","n","t"," ","p","l","a","n",
      "n","i","n","g"," ","c","o","m","m","e","n","t","s"," ","o","r"," ","p",
      "l","a","c","e","h","o","l","d","e","r","s",".","\n">>

S_PREAMBLE_TAIL ==
    <<"\n","\n","\\","e","n","d","{","d","o","c","u","m","e","n","t","}","\n">>

\* pipeline.filter_latex_safe: re.sub of every character outside the class by ""
filter_latex_safe(s) == SelectSeq(s, LAMBDA c : c \in ASCII \cup LISTED)

\* pipeline.wrap_with_preamble: the title is the topic without braces
wrap_with_preamble(topic, body) ==
    S_PREAMBLE_HEAD \o SelectSeq(topic, LAMBDA c : c \notin {"{", "}"})
        \o S_PREAMBLE_BODY \o body \o S_PREAMBLE_TAIL

\* the fragments the model's answer is built from
OutputFrags ==
    { <<"a">>, <<S_E_ACUTE>>, <<S_BELL>>, <<"\"">>, <<"\n">>,
      S_SECTION_OPEN \o <<"T", "}">> }

RECURSIVE OutputTexts(_)
OutputTexts(n) ==
    IF n = 0 THEN {<<>>}
    ELSE LET shorter == OutputTexts(n - 1)
         IN  shorter \cup {t \o f : t \in shorter, f \in OutputFrags}

\* the topics a document is requested for
PipelineTopics == { S_TOPIC_C, S_TOPIC_A, <<"{", "c", "a", "f", S_E_ACUTE, "}">> }

\* the model has answered the critique request: text is its answer
PipelineInit ==
    /\ text \in OutputTexts(MaxFrags)
    /\ result = NoResult
    /\ StoreIdle
    /\ PipelineIdle
    /\ DiffIdle
    /\ GradioIdle

\* ResearchPipeline.run from the model's answer to the file written
WriteDocument ==
    /\ result = NoResult
    /\ \E topic \in PipelineTopics :
          result' = [fn |-> "run", app |-> "pipeline",
                     value |-> wrap_with_preamble(topic, filter_latex_safe(text))]
    /\ TextFrame

PipelineNext == WriteDocument

SpecPipeline == PipelineInit /\ [][PipelineNext]_vars

----------------------------------------------------------------------------
(* pipeline: ResearchPipeline.run step by step, the model and pdflatex being
   outside the program *)

RESEARCH_INSTRUCTIONS ==
    <<"Y","o","u"," ","a","r","e"," ","a","n"," ","e","x","p","e","r","t"," ",
      "t","e","c","h","n","i","c","a","l"," ","r","e","s","e","a","r","c","h",
      "e","r"," ","a","n","d"," ","L","a","T","e","X"," ","w","r","i","t","e",
      "r",".","\n","A","l","w","a","y","s"," ","s","t","a","r","t"," ","b",
      "y"," ","s","e","l","e","c","t","i","n","g"," ","t","o","o","l","s"," ",
      "v","i","a"," ","d","e","e","p","_","r","o","u","t","e","r"," ","t","o",
      " ","p","l","a","n"," ","y","o","u","r"," ","r","e","s","e","a","r","c",
      "h"," ","p","a","t","h",".","\n","S","y","n","t","h","e","s","i","z",
      "e"," ","k","n","o","w","l","e","d","g","e"," ","f","r","o","m"," ","e",
      "v","e","r","y"," ","t","o","o","l"," ","c","a","l","l"," ","a","n","d",
      " ","c","i","t","e"," ","r","e","f","e","r","e","n","c","e","s"," ","i",
      "n","l","i","n","e"," ","(","p","l","a","i","n"," ","U","R","L","s",")",
      ".","\n","S","t","r","u","c","t","u","r","e"," ","t","h","e"," ","r",
      "e","s","p","o","n","s","e"," ","u","s","i","n","g"," ","\\","s","e",
      "c","t","i","o","n",","," ","\\","s","u","b","s","e","c","t","i","o",
      "n",","," ","a","n","d"," ","l","i","s","t","s"," ","p","e","r"," ","t",
      "h","e"," ","o","u","t","l","i","n","e"," ","b","e","l","o","w",".",
      "\n","P","r","o","v","i","d","e"," ","c","o","n","c","r","e","t","e",
      " ","e","x","a","m","p","l","e","s",","," ","d","i","a","g","r","a","m",
      "s",","," ","o","r"," ","c","o","d","e"," ","l","i","s","t","i","n","g",
      "s"," ","f","o","r"," ","t","e","c","h","n","i","c","a","l"," ","t","o",
      "p","i","c","s",".","\n","\n","\\","s","e","c","t","i","o","n","{","I",
      "n","t","r","o","d","u","c","t","i","o","n","}","\n","\\","s","e","c",
      "t","i","o","n","{","C","o","r","e"," ","C","o","n","c","e","p","t","s",
      "}","\n","\\","s","e","c","t","i","o","n","{","T","h","r","e","a","t",
      " ","T","r","a","c","k","i","n","g","}","\n","\\","s","e","c","t","i",
      "o","n","{","T","h","r","e","a","t"," ","M","o","n","i","t","o","r","i",
      "n","g","}","\n","\\","s","e","c","t","i","o","n","{","E","x","a","m",
      "p","l","e","s"," ","a","n","d"," ","U","s","e"," ","C","a","s","e","s",
      "}","\n","\\","s","e","c","t","i","o","n","{","E","c","o","s","y","s",
      "t","e","m"," ","a","n","d"," ","T","o","o","l","s","}","\n","\\","s",
      "e","c","t","i","o","n","{","S","u","m","m","a","r","y","}">>

S_FALLBACK_HEAD ==
    <<"\\","s","e","c","t","i","o","n","{","I","n","t","r","o","d","u","c",
      "t","i","o","n","}","\n","A","g","e","n","t","i","c"," ","A","I"," ",
      "t","r","e","n","d","s"," ","s","u","c","h"," ","a","s"," ">>

S_FALLBACK_MID ==
    <<" ","m","o","v","e"," ","a","u","t","o","m","a","t","i","o","n"," ","f",
      "r","o","m"," ","s","c","r","i","p","t","e","d"," ","w","o","r","k","f",
      "l","o","w","s"," ","t","o"," ","s","e","l","f","-","d","i","r","e","c",
      "t","e","d"," ","r","e","a","s","o","n","i","n","g"," ","l","o","o","p",
      "s"," ","t","h","a","t"," ","p","l","a","n",","," ","c","a","l","l"," ",
      "t","o","o","l","s",","," ","a","n","d"," ","u","p","d","a","t","e"," ",
      "m","e","m","o","r","y"," ","w","i","t","h","o","u","t"," ","c","o","n",
      "s","t","a","n","t"," ","h","u","m","a","n"," ","s","u","p","e","r","v",
      "i","s","i","o","n","."," ","T","h","i","s"," ","s","h","i","f","t"," ",
      "e","n","l","a","r","g","e","s"," ","t","h","e"," ","a","t","t","a","c",
      "k"," ","s","u","r","f","a","c","e"," ","w","i","t","h"," ","m","u","l",
      "t","i","-","t","u","r","n"," ","c","o","n","t","e","x","t",","," ","p",
      "l","u","g","-","i","n"," ","e","c","o","s","y","s","t","e","m","s",",",
      " ","a","n","d"," ","p","e","r","s","i","s","t","e","n","t"," ","k","n",
      "o","w","l","e","d","g","e"," ","b","a","s","e","s"," ","t","h","a","t",
      " ","a","d","v","e","r","s","a","r","i","e","s"," ","c","a","n"," ","p",
      "o","i","s","o","n"," ","o","r"," ","e","x","f","i","l","t","r","a","t",
      "e",","," ","m","a","k","i","n","g"," ","p","r","o","a","c","t","i","v",
      "e"," ","g","o","v","e","r","n","a","n","c","e"," ","e","s","s","e","n",
      "t","i","a","l"," ","f","o","r"," ","s","a","f","e","t","y","-","c","r",
      "i","t","i","c","a","l"," ","d","e","p","l","o","y","m","e","n","t","s",
      " ","(","S","o","u","r","c","e",":"," ","\\","u","r","l","{","h","t",
      "t","p","s",":","/","/","o","w","a","s","p",".","o","r","g","/","w","w",
      "w","-","p","r","o","j","e","c","t","-","t","o","p","-","1","0","-","f",
      "o","r","-","l","a","r","g","e","-","l","a","n","g","u","a","g","e","-",
      "m","o","d","e","l","-","a","p","p","l","i","c","a","t","i","o","n","s",
      "/","}",")",".","\n","\n","\\","s","e","c","t","i","o","n","{","C","o",
      "r","e"," ","C","o","n","c","e","p","t","s","}","\n","\\","s","u","b",
      "s","e","c","t","i","o","n","{","A","g","e","n","t"," ","A","u","t","o",
      "n","o","m","y"," ","L","a","y","e","r","s","}","\n","C","o","n","t",
      "e","m","p","o","r","a","r","y"," ","s","t","a","c","k","s"," ","b","l",
      "e","n","d"," ","p","l","a","n","n","e","r","s",","," ","c","o","n","t",
      "r","o","l","l","e","r","s",","," ","a","n","d"," ","a","c","t","u","a",
      "t","o","r"," ","t","o","o","l","s","."," ","E","a","c","h"," ","l","a",
      "y","e","r"," ","m","u","s","t"," ","e","n","f","o","r","c","e"," ","l",
      "e","a","s","t","-","p","r","i","v","i","l","e","g","e"," ","a","u","t",
      "h","o","r","i","z","a","t","i","o","n","s"," ","s","o"," ","p","r","o",
      "m","p","t"," ","i","n","j","e","c","t","i","o","n"," ","o","r"," ","c",
      "o","m","p","r","o","m","i","s","e","d"," ","t","o","o","l","s"," ","c",
      "a","n","n","o","t"," ","p","i","v","o","t"," ","i","n","t","o"," ","a",
      "d","j","a","c","e","n","t"," ","s","y","s","t","e","m","s",";"," ","M",
      "I","T","R","E"," ","A","T","L","A","S"," ","c","a","t","a","l","o","g",
      "s"," ","m","u","l","t","i","-","l","a","y","e","r"," ","a","t","t","a",
      "c","k"," ","p","a","t","h","s"," ","t","h","a","t"," ","e","x","p","l",
      "o","i","t"," ","w","e","a","k"," ","s","e","p","a","r","a","t","i","o",
      "n"," ","(","S","o","u","r","c","e",":"," ","\\","u","r","l","{","h",
      "t","t","p","s",":","/","/","a","t","l","a","s",".","m","i","t","r","e",
      ".","o","r","g","}",")",".","\n","\n","\\","s","u","b","s","e","c","t",
      "i","o","n","{","C","o","n","t","e","x","t"," ","S","u","r","f","a","c",
      "e","s","}","\n","R","e","t","r","i","e","v","a","l","-","a","u","g",
      "m","e","n","t","e","d"," ","a","g","e","n","t","s"," ","i","n","t","e",
      "r","a","c","t"," ","w","i","t","h"," ","v","e","c","t","o","r"," ","s",
      "t","o","r","e","s",","," ","s","c","r","a","t","c","h","p","a","d","s",
      ","," ","a","n","d"," ","c","o","l","l","a","b","o","r","a","t","i","o",
      "n"," ","m","e","m","o","r","i","e","s","."," ","S","e","n","s","i","t",
      "i","v","e"," ","a","r","t","i","f","a","c","t","s"," ","a","n","d"," ",
      "c","r","e","d","e","n","t","i","a","l","s"," ","a","c","c","u","m","u",
      "l","a","t","e"," ","i","n"," ","t","h","e","s","e"," ","c","a","c","h",
      "e","s"," ","u","n","l","e","s","s"," ","r","e","t","e","n","t","i","o",
      "n"," ","r","u","l","e","s",","," ","a","n","o","n","y","m","i","z","a",
      "t","i","o","n",","," ","a","n","d"," ","d","i","f","f","e","r","e","n",
      "t","i","a","l"," ","a","c","c","e","s","s"," ","c","o","n","t","r","o",
      "l","s"," ","a","r","e"," ","e","n","f","o","r","c","e","d",","," ","a",
      " ","r","e","c","u","r","r","i","n","g"," ","f","a","i","l","u","r","e",
      " ","p","a","t","t","e","r","n"," ","i","n"," ","e","a","r","l","y"," ",
      "a","g","e","n","t"," ","p","i","l","o","t","s"," ","(","S","o","u","r",
      "c","e",":"," ","\\","u","r","l","{","h","t","t","p","s",":","/","/",
      "b","l","o","g",".","l","a","n","g","c","h","a","i","n",".","d","e","v",
      "/","m","e","m","o","r","y","-","s","e","c","u","r","i","t","y","/","}",
      ")",".","\n","\n","\\","s","u","b","s","e","c","t","i","o","n","{","T",
      "h","r","e","a","t"," ","M","o","d","e","l","i","n","g"," ","W","o","r",
      "k","f","l","o","w","}","\n","T","e","a","m","s"," ","s","h","o","u",
      "l","d"," ","a","l","i","g","n"," ","M","A","E","S","T","R","O",","," ",
      "O","W","A","S","P"," ","A","g","e","n","t","i","c"," ","S","e","c","u",
      "r","i","t","y",","," ","a","n","d"," ","N","I","S","T"," ","A","I"," ",
      "R","M","F"," ","b","y"," ","s","c","o","p","i","n","g"," ","a","s","s",
      "e","t","s",","," ","m","a","p","p","i","n","g"," ","a","d","v","e","r",
      "s","a","r","y"," ","g","o","a","l","s",","," ","a","n","a","l","y","z",
      "i","n","g"," ","p","r","o","p","a","g","a","t","i","o","n"," ","p","a",
      "t","h","s",","," ","s","e","l","e","c","t","i","n","g"," ","c","o","n",
      "t","r","o","l","s",","," ","a","n","d"," ","d","e","f","i","n","i","n",
      "g"," ","a","s","s","u","r","a","n","c","e"," ","e","v","i","d","e","n",
      "c","e"," ","s","u","c","h"," ","a","s"," ","t","e","l","e","m","e","t",
      "r","y"," ","c","o","v","e","r","a","g","e"," ","a","n","d"," ","a","u",
      "t","o","m","a","t","e","d"," ","t","e","s","t","s"," ","(","S","o","u",
      "r","c","e",":"," ","\\","u","r","l","{","h","t","t","p","s",":","/",
      "/","n","v","l","p","u","b","s",".","n","i","s","t",".","g","o","v","/",
      "n","i","s","t","p","u","b","s","/","a","i","/","N","I","S","T",".","A",
      "I",".","1","0","0","-","1",".","p","d","f","}",")",".","\n","\n","\\",
      "s","e","c","t","i","o","n","{","T","h","r","e","a","t"," ","T","r","a",
      "c","k","i","n","g","}","\n","M","a","i","n","t","a","i","n"," ","a",
      "n"," ","a","g","e","n","t","-","s","p","e","c","i","f","i","c"," ","k",
      "i","l","l"," ","c","h","a","i","n"," ","c","o","v","e","r","i","n","g",
      " ","r","e","c","o","n","n","a","i","s","s","a","n","c","e"," ","t","h",
      "r","o","u","g","h"," ","i","m","p","a","c","t",","," ","t","a","g","g",
      "i","n","g"," ","e","v","e","r","y"," ","d","e","t","e","c","t","i","o",
      "n"," ","o","r"," ","i","n","c","i","d","e","n","t"," ","w","i","t","h",
      " ","A","T","L","A","S"," ","t","e","c","h","n","i","q","u","e"," ","I",
      "D","s"," ","(","e",".","g",".",","," ","p","r","o","m","p","t"," ","i",
      "n","j","e","c","t","i","o","n"," ","T","0","0","0","7",","," ","d","a",
      "t","a"," ","p","o","i","s","o","n","i","n","g"," ","T","0","0","2","0",
      ")"," ","t","o"," ","s","p","o","t"," ","t","r","e","n","d","s"," ","a",
      "c","r","o","s","s"," ","b","u","s","i","n","e","s","s"," ","u","n","i",
      "t","s","."," ","M","e","t","r","i","c","s"," ","l","i","k","e"," ","b",
      "l","o","c","k","e","d"," ","i","n","j","e","c","t","i","o","n"," ","r",
      "a","t","e",","," ","m","e","a","n"," ","t","i","m","e"," ","t","o"," ",
      "c","o","n","t","a","i","n"," ","t","o","o","l"," ","a","b","u","s","e",
      ","," ","a","n","d"," ","p","e","r","c","e","n","t"," ","o","f"," ","r",
      "u","n","s"," ","w","i","t","h"," ","f","u","l","l"," ","t","r","a","c",
      "e"," ","c","a","p","t","u","r","e"," ","k","e","e","p"," ","l","e","a",
      "d","e","r","s","h","i","p"," ","f","o","c","u","s","e","d"," ","o","n",
      " ","r","e","s","i","d","u","a","l"," ","r","i","s","k",".","\n","\n",
      "\\","s","e","c","t","i","o","n","{","T","h","r","e","a","t"," ","M",
      "o","n","i","t","o","r","i","n","g","}","\n","A","p","p","l","y"," ",
      "l","a","y","e","r","e","d"," ","c","o","n","t","r","o","l","s",":"," ",
      "s","a","n","i","t","i","z","e"," ","i","n","p","u","t","s"," ","a","n",
      "d"," ","r","e","t","r","i","e","v","e","d"," ","p","a","s","s","a","g",
      "e","s",","," ","e","n","f","o","r","c","e"," ","b","o","u","n","d","e",
      "d"," ","t","o","o","l"," ","p","l","a","n","s"," ","t","h","r","o","u",
      "g","h"," ","c","a","p","a","b","i","l","i","t","y"," ","t","o","k","e",
      "n","s",","," ","a","n","d"," ","s","t","r","e","a","m"," ","f","u","l",
      "l"," ","r","e","a","s","o","n","i","n","g"," ","t","r","a","c","e","s",
      " ","v","i","a"," ","L","a","n","g","S","m","i","t","h","/","O","p","e",
      "n","T","e","l","e","m","e","t","r","y"," ","f","o","r"," ","f","o","r",
      "e","n","s","i","c"," ","r","e","p","l","a","y"," ","(","S","o","u","r",
      "c","e",":"," ","\\","u","r","l","{","h","t","t","p","s",":","/","/",
      "w","w","w",".","l","a","n","g","c","h","a","i","n",".","c","o","m","/",
      "l","a","n","g","s","m","i","t","h","}",")","."," ","S","t","a","t","i",
      "s","t","i","c","a","l"," ","m","o","n","i","t","o","r","s"," ","s","h",
      "o","u","l","d"," ","f","l","a","g"," ","u","n","u","s","u","a","l"," ",
      "t","o","k","e","n"," ","b","u","r","s","t","s",","," ","r","e","p","e",
      "a","t","e","d"," ","t","o","o","l"," ","l","o","o","p","s",","," ","o",
      "r"," ","n","o","v","e","l"," ","d","e","s","t","i","n","a","t","i","o",
      "n","s",","," ","w","h","i","l","e"," ","r","u","n","b","o","o","k","s",
      " ","d","e","f","i","n","e"," ","k","i","l","l"," ","s","w","i","t","c",
      "h","e","s",","," ","c","a","c","h","e"," ","i","n","v","a","l","i","d",
      "a","t","i","o","n",","," ","a","n","d"," ","c","r","e","d","e","n","t",
      "i","a","l"," ","r","o","t","a","t","i","o","n"," ","s","t","e","p","s",
      " ","a","f","t","e","r"," ","a","n","o","m","a","l","i","e","s",".",
      "\n","\n","\\","s","e","c","t","i","o","n","{","E","x","a","m","p","l",
      "e","s"," ","a","n","d"," ","U","s","e"," ","C","a","s","e","s","}",
      "\n","\\","s","u","b","s","e","c","t","i","o","n","{","F","i","n","a",
      "n","c","e"," ","A","u","t","o","m","a","t","i","o","n","}","\n","A",
      " ","p","a","y","a","b","l","e","s"," ","a","g","e","n","t"," ","r","e",
      "a","d","i","n","g"," ","v","e","n","d","o","r"," ","e","m","a","i","l",
      "s"," ","w","a","s"," ","c","o","e","r","c","e","d"," ","i","n","t","o",
      " ","r","e","l","e","a","s","i","n","g"," ","f","r","a","u","d","u","l",
      "e","n","t"," ","w","i","r","e","s"," ","w","h","e","n"," ","m","e","m",
      "o","r","y"," ","l","a","c","k","e","d"," ","a","u","t","h","e","n","t",
      "i","c","i","t","y"," ","c","h","e","c","k","s","."," ","S","i","g","n",
      "e","d"," ","v","e","n","d","o","r"," ","m","e","t","a","d","a","t","a",
      ","," ","d","e","t","e","r","m","i","n","i","s","t","i","c"," ","a","p",
      "p","r","o","v","a","l"," ","t","e","m","p","l","a","t","e","s",","," ",
      "a","n","d"," ","s","i","m","u","l","a","t","i","o","n","-","o","n","l",
      "y"," ","d","r","y","-","r","u","n","s"," ","b","e","f","o","r","e"," ",
      "A","P","I"," ","e","x","e","c","u","t","i","o","n"," ","m","i","t","i",
      "g","a","t","e","d"," ","t","h","e"," ","i","s","s","u","e"," ","(","S",
      "o","u","r","c","e",":"," ","\\","u","r","l","{","h","t","t","p","s",
      ":","/","/","l","e","a","r","n",".","m","i","c","r","o","s","o","f","t",
      ".","c","o","m","/","s","e","c","u","r","i","t","y","/","a","i","-","r",
      "e","d","-","t","e","a","m","/","o","v","e","r","v","i","e","w","}",")",
      ".","\n","\n","\\","s","u","b","s","e","c","t","i","o","n","{","I","n",
      "c","i","d","e","n","t"," ","R","e","s","p","o","n","s","e"," ","C","o",
      "p","i","l","o","t","}","\n","P","o","i","s","o","n","e","d"," ","r",
      "e","t","r","i","e","v","a","l"," ","e","n","t","r","i","e","s"," ","s",
      "u","p","p","r","e","s","s","e","d"," ","c","e","r","t","a","i","n"," ",
      "t","e","l","e","m","e","t","r","y"," ","q","u","e","r","i","e","s",".",
      " ","E","n","f","o","r","c","i","n","g"," ","d","u","a","l","-","s","o",
      "u","r","c","e"," ","r","e","t","r","i","e","v","a","l",","," ","s","t",
      "o","r","i","n","g"," ","p","r","o","v","e","n","a","n","c","e"," ","h",
      "a","s","h","e","s",","," ","a","n","d"," ","M","A","E","S","T","R","O",
      "-","b","a","s","e","d"," ","c","o","n","f","l","i","c","t"," ","d","e",
      "t","e","c","t","i","o","n"," ","r","e","s","t","o","r","e","d"," ","t",
      "r","u","s","t"," ","(","S","o","u","r","c","e",":"," ","\\","u","r",
      "l","{","h","t","t","p","s",":","/","/","w","w","w",".","c","i","s","a",
      ".","g","o","v","/","r","e","s","o","u","r","c","e","s","-","t","o","o",
      "l","s","/","r","e","s","o","u","r","c","e","s","/","a","r","t","i","f",
      "i","c","i","a","l","-","i","n","t","e","l","l","i","g","e","n","c","e",
      "-","s","e","c","u","r","i","t","y","-","r","e","s","p","o","n","s","e",
      "}",")",".","\n","\n","\\","s","e","c","t","i","o","n","{","E","c","o",
      "s","y","s","t","e","m"," ","a","n","d"," ","T","o","o","l","s","}",
      "\n","S","e","c","u","r","e","d"," ","r","e","t","r","i","e","v","a",
      "l"," ","s","t","o","r","e","s"," ","(","F","A","I","S","S"," ","w","i",
      "t","h"," ","A","C","L","s",")",","," ","a","c","t","i","o","n"," ","r",
      "o","u","t","e","r","s"," ","(","L","a","n","g","G","r","a","p","h"," ",
      "g","u","a","r","d","r","a","i","l","s",","," ","G","u","a","r","d","r",
      "a","i","l","s"," ","A","I",")",","," ","c","u","r","a","t","e","d"," ",
      "s","e","a","r","c","h"," ","p","r","o","v","i","d","e","r","s"," ","(",
      "T","a","v","i","l","y",")",","," ","a","n","d"," ","d","o","c","u","m",
      "e","n","t"," ","s","a","n","i","t","i","z","e","r","s"," ","(","p","d",
      "f","m","i","n","e","r",".","s","i","x",")"," ","f","o","r","m"," ","t",
      "h","e"," ","b","a","s","e","l","i","n","e","."," ","S","n","a","p","s",
      "h","o","t","s"," ","a","n","d"," ","i","n","t","e","g","r","i","t","y",
      " ","d","i","f","f","i","n","g"," ","o","n"," ","e","m","b","e","d","d",
      "i","n","g","s"," ","r","e","p","o","s","i","t","o","r","i","e","s"," ",
      "d","e","t","e","c","t"," ","t","a","m","p","e","r","i","n","g"," ","b",
      "e","f","o","r","e"," ","a","g","e","n","t","s"," ","c","o","n","s","u",
      "m","e"," ","p","o","i","s","o","n","e","d"," ","d","a","t","a",".",
      "\n","\n","\\","s","e","c","t","i","o","n","{","S","u","m","m","a","r",
      "y","}","\n","S","u","s","t","a","i","n","a","b","l","e"," ">>

S_FALLBACK_TAIL ==
    <<" ","i","n","i","t","i","a","t","i","v","e","s"," ","t","r","e","a","t",
      " ","a","u","t","o","n","o","m","o","u","s"," ","a","g","e","n","t","s",
      " ","a","s"," ","s","o","f","t","w","a","r","e"," ","s","u","p","p","l",
      "y"," ","c","h","a","i","n","s"," ","r","e","q","u","i","r","i","n","g",
      " ","g","o","v","e","r","n","a","n","c","e",","," ","v","a","l","i","d",
      "a","t","i","o","n",","," ","a","n","d"," ","r","a","p","i","d"," ","r",
      "e","s","p","o","n","s","e"," ","a","c","r","o","s","s"," ","p","l","a",
      "n","n","i","n","g",","," ","m","e","m","o","r","y",","," ","a","n","d",
      " ","t","o","o","l"," ","l","a","y","e","r","s",".","\n","\n","\\","s",
      "u","b","s","e","c","t","i","o","n","{","B","e","s","t"," ","P","r","a",
      "c","t","i","c","e","s","}","\n","\\","b","e","g","i","n","{","i","t",
      "e","m","i","z","e","}","\n"," "," "," "," ","\\","i","t","e","m"," ",
      "I","n","v","e","n","t","o","r","y"," ","e","v","e","r","y"," ","a","g",
      "e","n","t",","," ","m","o","d","e","l",","," ","a","n","d"," ","t","o",
      "o","l"," ","i","n","t","e","g","r","a","t","i","o","n"," ","w","i","t",
      "h"," ","o","w","n","e","r","s",","," ","S","L","A","s",","," ","a","n",
      "d"," ","d","a","t","a"," ","c","l","a","s","s","i","f","i","c","a","t",
      "i","o","n","s"," ","p","r","i","o","r"," ","t","o"," ","p","r","o","d",
      "u","c","t","i","o","n"," ","u","s","e",".","\n"," "," "," "," ","\\",
      "i","t","e","m"," ","T","i","e"," ","d","e","p","l","o","y","m","e","n",
      "t"," ","a","p","p","r","o","v","a","l","s"," ","t","o"," ","r","e","f",
      "r","e","s","h","e","d"," ","M","A","E","S","T","R","O","/","O","W","A",
      "S","P"," ","t","h","r","e","a","t"," ","m","o","d","e","l","s"," ","w",
      "h","e","n","e","v","e","r"," ","p","r","o","m","p","t","s",","," ","m",
      "o","d","e","l","s",","," ","o","r"," ","p","l","u","g","i","n","s"," ",
      "c","h","a","n","g","e",".","\n"," "," "," "," ","\\","i","t","e","m",
      " ","E","n","f","o","r","c","e"," ","p","o","l","i","c","y"," ","g","u",
      "a","r","d","r","a","i","l","s"," ","i","n"," ","c","o","d","e"," ","(",
      "c","a","p","a","b","i","l","i","t","i","e","s",","," ","r","a","t","e",
      " ","l","i","m","i","t","s",","," ","s","i","g","n","e","d"," ","m","a",
      "n","i","f","e","s","t","s",")"," ","r","a","t","h","e","r"," ","t","h",
      "a","n"," ","r","e","l","y","i","n","g"," ","o","n"," ","n","a","t","u",
      "r","a","l","-","l","a","n","g","u","a","g","e"," ","i","n","s","t","r",
      "u","c","t","i","o","n","s",".","\n"," "," "," "," ","\\","i","t","e",
      "m"," ","C","a","p","t","u","r","e"," ","a","n","d"," ","r","e","d","a",
      "c","t"," ","r","e","a","s","o","n","i","n","g"," ","t","r","a","c","e",
      "s"," ","f","o","r"," ","m","o","n","i","t","o","r","i","n","g"," ","a",
      "n","d"," ","i","n","c","i","d","e","n","t"," ","r","e","s","p","o","n",
      "s","e",","," ","s","t","o","r","i","n","g"," ","e","x","e","m","p","l",
      "a","r","s"," ","f","o","r"," ","r","e","g","r","e","s","s","i","o","n",
      " ","t","e","s","t","s",".","\n"," "," "," "," ","\\","i","t","e","m",
      " ","R","u","n"," ","r","e","c","u","r","r","i","n","g"," ","j","o","i",
      "n","t"," ","r","e","d","-","t","e","a","m"," ","a","n","d"," ","c","h",
      "a","o","s"," ","e","x","e","r","c","i","s","e","s"," ","s","i","m","u",
      "l","a","t","i","n","g"," ","s","u","p","p","l","y","-","c","h","a","i",
      "n"," ","c","o","m","p","r","o","m","i","s","e",","," ","r","e","t","r",
      "i","e","v","a","l"," ","p","o","i","s","o","n","i","n","g",","," ","a",
      "n","d"," ","c","o","n","t","r","o","l","l","e","r"," ","a","b","u","s",
      "e"," ","t","o"," ","v","a","l","i","d","a","t","e"," ","p","l","a","y",
      "b","o","o","k","s",".","\n","\\","e","n","d","{","i","t","e","m","i",
      "z","e","}">>

S_TOPIC_LABEL_SP ==
    <<"T","o","p","i","c",":"," ">>

S_WRITE_THE_BODY ==
    <<"\n","\n","W","r","i","t","e"," ","t","h","e"," ","L","a","T","e","X",
      " ","b","o","d","y"," ","a","s"," ","s","p","e","c","i","f","i","e","d",
      " ","i","n"," ","y","o","u","r"," ","i","n","s","t","r","u","c","t","i",
      "o","n","s","."," ","R","e","m","e","m","b","e","r",":"," ","o","u","t",
      "p","u","t"," ","O","N","L","Y"," ","L","a","T","e","X",","," ","n","o",
      " ","e","x","p","l","a","n","a","t","i","o","n","s",".">>

S_CRITIQUE ==
    <<"Y","o","u"," ","a","r","e"," ","a"," ","c","r","i","t","i","c","a","l",
      " ","r","e","v","i","e","w","e","r"," ","a","n","d"," ","e","x","p","e",
      "r","t"," ","i","n"," ","t","e","c","h","n","i","c","a","l"," ","w","r",
      "i","t","i","n","g",","," ","c","y","b","e","r","s","e","c","u","r","i",
      "t","y",","," ","a","n","d"," ","A","I"," ","r","i","s","k"," ","m","a",
      "n","a","g","e","m","e","n","t","."," ","T","h","o","r","o","u","g","h",
      "l","y"," ","i","m","p","r","o","v","e"," ","t","h","e"," ","f","o","l",
      "l","o","w","i","n","g"," ","L","a","T","e","X"," ","h","a","n","d","o",
      "u","t"," ","f","o","r"," ","d","e","p","t","h",","," ","a","c","t","i",
      "o","n","a","b","l","e"," ","t","h","r","e","a","t"," ","m","o","d","e",
      "l","i","n","g",","," ","a","n","d"," ","m","o","n","i","t","o","r","i",
      "n","g"," ","s","t","r","a","t","e","g","i","e","s","."," ","F","o","r",
      " ","e","a","c","h"," ","s","e","c","t","i","o","n",","," ","e","s","p",
      "e","c","i","a","l","l","y"," ","'","C","o","r","e"," ","C","o","n","c",
      "e","p","t","s","'"," ","a","n","d"," ","a","g","e","n","t","-","s","p",
      "e","c","i","f","i","c"," ","t","o","p","i","c","s",","," ","p","r","o",
      "v","i","d","e"," ","d","e","t","a","i","l","e","d",","," ","n","a","r",
      "r","a","t","i","v","e"," ","e","x","p","l","a","n","a","t","i","o","n",
      "s"," ","w","i","t","h"," ","c","o","n","t","e","x","t",","," ","n","o",
      "t"," ","j","u","s","t"," ","b","u","l","l","e","t"," ","p","o","i","n",
      "t","s","."," ","E","x","p","l","a","i","n"," ","w","h","y"," ","e","a",
      "c","h"," ","c","o","n","c","e","p","t"," ","i","s"," ","i","m","p","o",
      "r","t","a","n","t"," ","f","o","r"," ","t","h","e"," ","r","e","s","e",
      "a","r","c","h"," ","t","o","p","i","c",","," ","h","o","w"," ","i","t",
      " ","a","p","p","l","i","e","s"," ","i","n"," ","r","e","a","l","-","w",
      "o","r","l","d"," ","s","c","e","n","a","r","i","o","s",","," ","a","n",
      "d"," ","p","r","o","v","i","d","e"," ","i","l","l","u","s","t","r","a",
      "t","i","v","e"," ","e","x","a","m","p","l","e","s"," ","o","r"," ","c",
      "a","s","e"," ","s","t","u","d","i","e","s","."," ","A","d","d"," ","s",
      "t","e","p","-","b","y","-","s","t","e","p"," ","t","h","r","e","a","t",
      " ","m","o","d","e","l","i","n","g"," ","a","p","p","r","o","a","c","h",
      "e","s"," ","(","r","e","f","e","r","e","n","c","i","n","g"," ","f","r",
      "a","m","e","w","o","r","k","s"," ","l","i","k","e"," ","M","A","E","S",
      "T","R","O",","," ","O","W","A","S","P"," ","A","g","e","n","t","i","c",
      " ","S","e","c","u","r","i","t","y",","," ","o","r"," ","N","I","S","T",
      " ","R","M","F",")",","," ","a","n","d"," ","i","n","c","l","u","d","e",
      " ","p","r","a","c","t","i","c","a","l"," ","m","o","n","i","t","o","r",
      "i","n","g","/","m","i","t","i","g","a","t","i","o","n"," ","s","t","r",
      "a","t","e","g","i","e","s","."," ","C","i","t","e"," ","a","l","l"," ",
      "f","a","c","t","s"," ","w","i","t","h"," ","i","n","l","i","n","e"," ",
      "r","e","f","e","r","e","n","c","e","s"," ","a","n","d"," ","i","n","c",
      "l","u","d","e"," ","a"," ","'","B","e","s","t"," ","P","r","a","c","t",
      "i","c","e","s","'"," ","s","u","b","s","e","c","t","i","o","n"," ","w",
      "i","t","h"," ","a","c","t","i","o","n","a","b","l","e"," ","r","e","c",
      "o","m","m","e","n","d","a","t","i","o","n","s","."," ","R","e","m","o",
      "v","e"," ","a","n","y"," ","a","g","e","n","t"," ","p","l","a","n","n",
      "i","n","g"," ","c","o","m","m","e","n","t","s"," ","o","r"," ","p","l",
      "a","c","e","h","o","l","d","e","r","s","."," ","E","n","s","u","r","e",
      " ","t","h","e"," ","d","o","c","u","m","e","n","t"," ","i","s"," ","c",
      "o","m","p","r","e","h","e","n","s","i","v","e",","," ","p","r","a","c",
      "t","i","c","a","l",","," ","a","n","d"," ","s","u","i","t","a","b","l",
      "e"," ","f","o","r"," ","a"," ","p","r","o","f","e","s","s","i","o","n",
      "a","l"," ","a","u","d","i","e","n","c","e",".","\n","\n">>

S_AGENTIC_SECURITY ==
    <<"A","g","e","n","t","i","c"," ","S","e","c","u","r","i","t","y">>
S_TOPIC_COLON == <<"T","o","p","i","c",":">>
S_AND == <<"a","n","d">>
S_RESULTS == <<"r","e","s","u","l","t","s">>
S_PDF_SUFFIX == <<".","p","d","f">>
S_PDF_MAGIC == <<"%","P","D","F">>

\* s.splitlines()[0] of a text that is not empty
FirstLine(s) ==
    LET brk == IndexFrom(s, LineBreaks, 1)
    IN  IF brk = 0 THEN s ELSE SubSeq(s, 1, brk - 1)

\* the index of the first occurrence of pat in s, or 0: pat in s, s.split(pat, 1)
Find(s, pat) ==
    LET hits == {j \in 1..Len(s) : StartsWithAt(s, j, pat)}
    IN  IF hits = {} THEN 0 ELSE SetMin(hits)

Message(role, content) == [role |-> role, content |-> content]

\* BasicResearchAgent._extract_topic: the first line after "Topic:" of the last
\* message that has one
extract_topic(conversation) ==
    LET named == {k \in DOMAIN conversation :
                     LET c  == conversation[k].content
                         at == Find(c, S_TOPIC_COLON)
                     IN  /\ at # 0
                         /\ Strip(SubSeq(c, at + Len(S_TOPIC_COLON), Len(c))) # <<>>}
    IN  IF named = {} THEN S_AGENTIC_SECURITY
        ELSE LET c  == conversation[SetMax(named)].content
                 at == Find(c, S_TOPIC_COLON)
             IN  Strip(FirstLine(Strip(SubSeq(c, at + Len(S_TOPIC_COLON), Len(c)))))

\* BasicResearchAgent._escape
escape(s) ==
    Replace(Replace(Replace(Replace(s, <<"\\">>, <<" ">>), <<"{">>, <<>>),
                    <<"}">>, <<>>),
            <<"&">>, S_AND)

\* BasicResearchAgent._fallback_body: the canned handout about the topic
fallback_body(topic) ==
    LET topic_key   == IF topic = <<>> THEN S_AGENTIC_SECURITY ELSE topic
        topic_clean == escape(topic_key)
    IN  Strip(S_FALLBACK_HEAD \o topic_clean \o S_FALLBACK_MID \o topic_clean
                \o S_FALLBACK_TAIL)

\* BasicResearchAgent.invoke, the model answering answer: the conversation sent,
\* the messages returned and the history afterwards
invoke(system_prompt, history, incoming, answer) ==
    LET conversation == <<Message("system", system_prompt)>> \o history \o incoming
        stripped     == Strip(answer)
        content      == IF stripped = <<>>
                        THEN fallback_body(extract_topic(conversation))
                        ELSE stripped
        reply        == Message("assistant", content)
    IN  [ conversation |-> conversation,
          history      |-> history \o incoming \o <<reply>>,
          messages     |-> incoming \o <<reply>> ]

\* os.path.join(workdir, base, base + suffix)
topic_file(workdir, base, suffix) ==
    workdir \o <<"/">> \o base \o <<"/">> \o base \o suffix

\* open(path, "w").write(content) on the files of the disk
write_file(files, path, content) ==
    [p \in DOMAIN files \cup {path} |-> IF p = path THEN content ELSE files[p]]

\* the topics a run is called with: one names braces and a character outside
\* ASCII, one is empty
RunTopics == { S_TOPIC_A, <<"{", "c", "a", "f", S_E_ACUTE, "}">>, <<>> }

\* what the chat model may answer: nothing, white space, a section, a text the
\* filter empties
ModelAnswers ==
    { <<>>, <<" ", "\n">>, S_SECTION_OPEN \o <<"T", "}", "a", S_E_ACUTE>>,
      <<S_E_ACUTE>> }

RunFrame == UNCHANGED <<topics, sections, versions, now, resp, text, result,
                        default_prefix, diff_call, session, store_call>>

\* the user message of the draft request
user_message(topic) == S_TOPIC_LABEL_SP \o topic \o S_WRITE_THE_BODY

\* a critique request that leaves the draft out
critique_prompt_alone(draft_body) == S_CRITIQUE

\* the critique request
critique_prompt(draft_body) == S_CRITIQUE \o draft_body

\* the message agent.invoke is called with at the position the run has reached
Incoming ==
    IF run.pc = "draft" THEN <<Message("user", user_message(run.topic))>>
    ELSE <<Message("user", critique_prompt(run.draft_body))>>

\* return PipelineResult(...)
Returned(r) ==
    [r EXCEPT !.pc = "returned",
              !.returned = [ topic |-> r.topic, latex_body |-> r.improved_latex,
                             latex_full |-> r.latex_full, tex_path |-> r.tex_path,
                             pdf_path |-> r.pdf_path,
                             messages |-> r.state \o r.critique_state ]]

\* ResearchPipeline.run is called: a new agent is built, its history empty
Run ==
    /\ run.pc \in {"idle", "returned", "raised"}
    /\ run.calls_made < MaxRuns
    /\ \E topic \in RunTopics, compile_pdf \in BOOLEAN :
          run' = [NoRun EXCEPT !.pc = "draft", !.calls_made = run.calls_made + 1,
                               !.topic = topic, !.compile_pdf = compile_pdf]
    /\ UNCHANGED disk
    /\ RunFrame

\* agent.invoke of the draft request, the model answering
InvokeDraft ==
    /\ run.pc = "draft"
    /\ \E answer \in ModelAnswers :
       \E r \in {invoke(RESEARCH_INSTRUCTIONS, run.history, Incoming, answer)} :
          run' = [run EXCEPT !.pc = "critique", !.history = r.history,
                             !.invoked = Append(@, r.conversation),
                             !.answers = Append(@, answer),
                             !.state = r.messages,
                             !.draft_body = r.messages[Len(r.messages)].content]
    /\ UNCHANGED disk
    /\ RunFrame

\* agent.invoke of the critique request, the model answering; the answer is
\* filtered
InvokeCritique ==
    /\ run.pc = "critique"
    /\ \E answer \in ModelAnswers :
       \E r \in {invoke(RESEARCH_INSTRUCTIONS, run.history, Incoming, answer)} :
          run' = [run EXCEPT !.pc = "write", !.history = r.history,
                             !.invoked = Append(@, r.conversation),
                             !.answers = Append(@, answer),
                             !.critique_state = r.messages,
                             !.improved_latex =
                                 filter_latex_safe(r.messages[Len(r.messages)].content)]
    /\ UNCHANGED disk
    /\ RunFrame

\* self.model.invoke raises: nothing catches it, run ends with the exception
ModelRaises ==
    /\ run.pc \in {"draft", "critique"}
    /\ run' = [run EXCEPT !.pc = "raised",
                          !.invoked = Append(@, <<Message("system", RESEARCH_INSTRUCTIONS)>>
                                                  \o run.history \o Incoming)]
    /\ UNCHANGED disk
    /\ RunFrame

\* the document is assembled and written to <workdir>/<slug>/<slug>.tex; without
\* compile_pdf, or with a blank body, run returns
WriteTex ==
    /\ run.pc = "write"
    /\ \E latex_full \in {wrap_with_preamble(run.topic, run.improved_latex)},
          base \in {slugify(run.topic)} :
          /\ disk' = write_file(disk, topic_file(S_RESULTS, base, S_TEX_SUFFIX),
                                latex_full)
          /\ run' = IF run.compile_pdf /\ Strip(run.improved_latex) # <<>>
                    THEN [run EXCEPT
                            !.pc = "pass1", !.latex_full = latex_full,
                            !.tex_path = topic_file(S_RESULTS, base, S_TEX_SUFFIX),
                            !.pdf_path = topic_file(S_RESULTS, base, S_PDF_SUFFIX)]
                    ELSE Returned([run EXCEPT
                            !.latex_full = latex_full,
                            !.tex_path = topic_file(S_RESULTS, base, S_TEX_SUFFIX),
                            !.pdf_path = None])
    /\ RunFrame

\* pdflatex run without the try: a failing pass ends run with its exception
Pdflatex_uncaught ==
    /\ run.pc \in {"pass1", "pass2"}
    /\ \E outcome \in {"ok", "failed", "missing"}, wrote \in BOOLEAN :
          /\ outcome = "ok" => wrote
          /\ outcome = "missing" => ~wrote
          /\ disk' = IF wrote THEN write_file(disk, run.pdf_path, S_PDF_MAGIC)
                     ELSE disk
          /\ run' = IF outcome # "ok"
                    THEN [run EXCEPT !.pc = "raised", !.passes = Append(@, outcome)]
                    ELSE IF run.pc = "pass1"
                    THEN [run EXCEPT !.pc = "pass2", !.passes = Append(@, outcome)]
                    ELSE Returned([run EXCEPT !.passes = Append(@, outcome)])
    /\ RunFrame

\* one subprocess.run of pdflatex: it succeeds and writes the PDF, it exits with
\* an error having written a PDF or not, or the program is not installed; any
\* exception sets pdf_path to None and run returns
Pdflatex ==
    /\ run.pc \in {"pass1", "pass2"}
    /\ \E outcome \in {"ok", "failed", "missing"}, wrote \in BOOLEAN :
          /\ outcome = "ok" => wrote
          /\ outcome = "missing" => ~wrote
          /\ disk' = IF wrote THEN write_file(disk, run.pdf_path, S_PDF_MAGIC)
                     ELSE disk
          /\ run' = IF outcome # "ok"
                    THEN Returned([run EXCEPT !.pdf_path = None,
                                              !.passes = Append(@, outcome)])
                    ELSE IF run.pc = "pass1"
                    THEN [run EXCEPT !.pc = "pass2", !.passes = Append(@, outcome)]
                    ELSE Returned([run EXCEPT !.passes = Append(@, outcome)])
    /\ RunFrame

RunInit ==
    /\ StoreIdle
    /\ DiffIdle
    /\ GradioIdle
    /\ PipelineIdle
    /\ text = <<>>
    /\ result = NoResult

RunNext ==
    \/ Run
    \/ InvokeDraft
    \/ InvokeCritique
    \/ ModelRaises
    \/ WriteTex
    \/ Pdflatex

SpecRun == RunInit /\ [][RunNext]_vars

----------------------------------------------------------------------------
(* tools: the calls of the search and image providers, and POST /section/tool *)

S_PERPLEXITY_NO_KEY ==
    <<"P","E","R","P","L","E","X","I","T","Y","_","A","P","I","_","K","E","Y",
      " ","n","o","t"," ","c","o","n","f","i","g","u","r","e","d",".">>
S_SOURCES == <<"\n","\n","S","o","u","r","c","e","s",":","\n">>
S_PERPLEXITY_API_ERROR ==
    <<"P","e","r","p","l","e","x","i","t","y"," ","A","P","I"," ","e","r","r",
      "o","r",":"," ">>
S_DASH == <<" ","-"," ">>
S_PERPLEXITY_FAILED ==
    <<"P","e","r","p","l","e","x","i","t","y"," ","r","e","q","u","e","s","t",
      " ","f","a","i","l","e","d",":"," ">>
S_NO_SUMMARY ==
    <<"N","o"," ","s","u","m","m","a","r","y"," ","f","o","u","n","d",".">>
S_WIKIPEDIA_FAILED ==
    <<"W","i","k","i","p","e","d","i","a"," ","l","o","o","k","u","p"," ","f",
      "a","i","l","e","d"," ","w","i","t","h"," ","s","t","a","t","u","s",
      " ">>
S_ARXIV_FAILED ==
    <<"a","r","X","i","v"," ","s","e","a","r","c","h"," ","f","a","i","l","e",
      "d",".">>
S_NO_ARXIV ==
    <<"N","o"," ","a","r","X","i","v"," ","r","e","s","u","l","t","s",".">>
S_ENTRY == <<"<","e","n","t","r","y",">">>
S_TITLE == <<"<","t","i","t","l","e",">">>
S_TITLE_END == <<"<","/","t","i","t","l","e",">">>
S_ID == <<"<","i","d",">">>
S_ID_END == <<"<","/","i","d",">">>
S_PICSART_NO_KEY ==
    <<"P","I","C","S","A","R","T","_","A","P","I","_","K","E","Y"," ","n","o",
      "t"," ","c","o","n","f","i","g","u","r","e","d","."," ","A","d","d"," ",
      "i","t"," ","t","o"," ","y","o","u","r"," ",".","e","n","v"," ","f","i",
      "l","e",".">>
S_IMAGES_DIR == <<"r","e","s","u","l","t","s","/","i","m","a","g","e","s">>
S_PICSART_FILE == <<"p","i","c","s","a","r","t","_">>
S_PNG == <<".","p","n","g">>
S_IMAGE_SAVED ==
    <<"I","m","a","g","e"," ","g","e","n","e","r","a","t","e","d"," ","a","n",
      "d"," ","s","a","v","e","d"," ","t","o"," ">>
S_NO_IMAGE_URL ==
    <<"N","o"," ","i","m","a","g","e"," ","U","R","L"," ","i","n"," ","r","e",
      "s","p","o","n","s","e">>
S_PICSART_API_ERROR ==
    <<"P","i","c","s","a","r","t"," ","A","P","I"," ","e","r","r","o","r",":",
      " ">>
S_PICSART_FAILED ==
    <<"P","i","c","s","a","r","t"," ","r","e","q","u","e","s","t"," ","f","a",
      "i","l","e","d",":"," ">>
S_NO_SEARCH_RESULTS ==
    <<"N","o"," ","s","e","a","r","c","h"," ","r","e","s","u","l","t","s",
      ".">>
S_RESULT_SP == <<"R","e","s","u","l","t"," ">>
S_LIST_INDEX ==
    <<"l","i","s","t"," ","i","n","d","e","x"," ","o","u","t"," ","o","f"," ",
      "r","a","n","g","e">>
S_CONNECTION_REFUSED ==
    <<"C","o","n","n","e","c","t","i","o","n"," ","r","e","f","u","s","e",
      "d">>
S_EXPECTING_VALUE ==
    <<"E","x","p","e","c","t","i","n","g"," ","v","a","l","u","e",":"," ","l",
      "i","n","e"," ","1"," ","c","o","l","u","m","n"," ","1"," ","(","c","h",
      "a","r"," ","0",")">>

\* a JSON object without members
EmptyObject == [k \in {} |-> <<>>]

\* dict.get(key, default)
Get(obj, key, default) == IF key \in DOMAIN obj THEN obj[key] ELSE default

\* str.split(pat)
Split(s, pat) ==
    IF s = <<>> THEN << <<>> >> ELSE
    LET ends == [j \in 1..Len(s) |->
                    IF StartsWithAt(s, j, pat) THEN j + Len(pat) - 1 ELSE 0]
    IN  Between(s, MatchSpans(ends, 1))

\* s[:n]
Prefix(s, n) == SubSeq(s, 1, IF Len(s) < n THEN Len(s) ELSE n)

\* how a call ends: with a value, or with an exception nothing has caught
Returns(v) == [kind |-> "returned", value |-> v]
Raises(e) == [kind |-> "raised", error |-> e]

\* what a provider does with a request: it cannot be reached (requests raises
\* ConnectionError), or it answers with a status code and a body; json is the
\* body parsed, valid FALSE when response.json() raises
Unreachable == [kind |-> "unreachable", error |-> S_CONNECTION_REFUSED]
Status(code, body, valid, json) ==
    [kind |-> "status", code |-> code, text |-> body,
     json |-> [valid |-> valid, value |-> json]]

PerplexityResult(status, answer, citations) ==
    [status |-> status, answer |-> answer, citations |-> citations]

\* tools.perplexity_search
perplexity_search(query, api_key, reply) ==
    IF api_key = <<>>
    THEN Returns(PerplexityResult("error", S_PERPLEXITY_NO_KEY, <<>>))
    ELSE IF reply.kind = "unreachable"
    THEN Returns(PerplexityResult("error", S_PERPLEXITY_FAILED \o reply.error, <<>>))
    ELSE IF reply.code # 200
    THEN Returns(PerplexityResult("error",
                    S_PERPLEXITY_API_ERROR \o IntToStr(reply.code) \o S_DASH
                        \o Prefix(reply.text, 200), <<>>))
    ELSE IF ~reply.json.valid
    THEN Returns(PerplexityResult("error", S_PERPLEXITY_FAILED \o S_EXPECTING_VALUE,
                                  <<>>))
    ELSE
    LET choices   == Get(reply.json.value, "choices", <<EmptyObject>>)
        citations == Get(reply.json.value, "citations", <<>>)
    IN  IF choices = <<>>
        THEN Returns(PerplexityResult("error", S_PERPLEXITY_FAILED \o S_LIST_INDEX,
                                      <<>>))
        ELSE Returns(PerplexityResult("success",
                Get(Get(choices[1], "message", EmptyObject), "content", <<>>),
                IF citations = <<>> THEN <<>>
                ELSE S_SOURCES \o
                     Join([i \in DOMAIN citations |->
                              <<"[">> \o IntToStr(i) \o <<"]", " ">> \o citations[i]],
                          <<"\n">>)))

\* tools.internet_search: TavilyClient.search returns the parsed body of a 200
\* answer and raises for a transport error and for every other status; nothing
\* here catches it
internet_search(query, reply) ==
    IF reply.kind = "unreachable" THEN Raises(reply.error)
    ELSE IF reply.code # 200 THEN Raises(IntToStr(reply.code))
    ELSE IF ~reply.json.valid THEN Raises(S_EXPECTING_VALUE)
    ELSE Returns(reply.json.value)

\* tools.wikipedia_lookup: requests.get is not inside a try
wikipedia_lookup(query, reply) ==
    IF reply.kind = "unreachable" THEN Raises(reply.error)
    ELSE IF reply.code = 200
    THEN IF ~reply.json.valid THEN Raises(S_EXPECTING_VALUE)
         ELSE Returns(Get(reply.json.value, "extract", S_NO_SUMMARY))
    ELSE Returns(S_WIKIPEDIA_FAILED \o IntToStr(reply.code))

\* the title and the link of one <entry> of the arXiv feed, or no line when the
\* entry lacks one of them (IndexError, caught)
arxiv_entry(entry) ==
    LET titled == Split(entry, S_TITLE)
        linked == Split(entry, S_ID)
    IN  IF Len(titled) < 2 \/ Len(linked) < 2 THEN <<>>
        ELSE << Replace(Strip(Split(titled[2], S_TITLE_END)[1]), <<"\n">>, <<" ">>)
                  \o <<"\n">> \o Strip(Split(linked[2], S_ID_END)[1]) >>

\* tools.arxiv_search: requests.get is not inside a try
arxiv_search(query, reply) ==
    IF reply.kind = "unreachable" THEN Raises(reply.error)
    ELSE IF reply.code # 200 THEN Returns(S_ARXIV_FAILED)
    ELSE
    LET entries == Tail(Split(reply.text, S_ENTRY))
        results == Concat([k \in DOMAIN entries |-> arxiv_entry(entries[k])])
    IN  Returns(IF results = <<>> THEN S_NO_ARXIV
                ELSE Join(results, <<"\n", "\n">>))

PicsartResult(status, message, url, local_path) ==
    [status |-> status, message |-> message, url |-> url,
     local_path |-> local_path]

\* picsart_generate returning an error: no file is written
PicsartFailed(files, message) ==
    [out |-> Returns(PicsartResult("error", message, <<>>, <<>>)), files |-> files]

\* tools.picsart_generate with the default output_dir: reply answers the
\* text2image request, img_reply the download of the image, hex is
\* uuid.uuid4().hex[:8]; the value returned and the files afterwards
picsart_generate(prompt, api_key, reply, img_reply, hex, files) ==
    LET local_path == S_IMAGES_DIR \o <<"/">> \o S_PICSART_FILE \o hex \o S_PNG
    IN  IF api_key = <<>> THEN PicsartFailed(files, S_PICSART_NO_KEY)
        ELSE IF reply.kind = "unreachable"
        THEN PicsartFailed(files, S_PICSART_FAILED \o reply.error)
        ELSE IF reply.code # 200
        THEN PicsartFailed(files, S_PICSART_API_ERROR \o IntToStr(reply.code) \o S_DASH
                        \o Prefix(reply.text, 200))
        ELSE IF ~reply.json.valid
        THEN PicsartFailed(files, S_PICSART_FAILED \o S_EXPECTING_VALUE)
        ELSE
        LET data == Get(reply.json.value, "data", <<EmptyObject>>)
        IN  IF data = <<>> THEN PicsartFailed(files, S_PICSART_FAILED \o S_LIST_INDEX)
            ELSE
            LET image_url == Get(data[1], "url", <<>>)
            IN  IF image_url = <<>> THEN PicsartFailed(files, S_NO_IMAGE_URL)
                ELSE IF img_reply.kind = "unreachable"
                THEN PicsartFailed(files, S_PICSART_FAILED \o img_reply.error)
                ELSE IF img_reply.code # 200 THEN PicsartFailed(files, S_NO_IMAGE_URL)
                ELSE [out |-> Returns(PicsartResult("success", S_IMAGE_SAVED
                                          \o local_path, image_url, local_path)),
                      files |-> write_file(files, local_path, img_reply.text)]

\* react_app.format_search_results
format_search_results(payload) ==
    LET results == Get(payload, "results", <<>>)
        shown   == Prefix(results, 5)
    IN  IF results = <<>> THEN S_NO_SEARCH_RESULTS
        ELSE Join([idx \in DOMAIN shown |->
                      IntToStr(idx) \o <<".", " ">>
                        \o (IF Get(shown[idx], "title", <<>>) = <<>>
                            THEN S_RESULT_SP \o IntToStr(idx)
                            ELSE shown[idx].title)
                        \o <<"\n">> \o Get(shown[idx], "url", <<>>)
                        \o <<"\n">> \o Strip(Get(shown[idx], "content", <<>>))],
                  <<"\n", "\n">>)

\* the tool a search request of POST /section/tool names, called
search_tool(tool, query, reply) ==
    IF tool = "internet_search" THEN internet_search(query, reply)
    ELSE IF tool = "wikipedia_lookup" THEN wikipedia_lookup(query, reply)
    ELSE arxiv_search(query, reply)

\* react_app.run_section_tool for the three search tools: an exception of the
\* tool is not caught, the server answers 500
run_section_tool(tool, query, reply) ==
    LET out == search_tool(tool, query, reply)
    IN  IF out.kind = "raised" THEN HttpError(500, "Internal Server Error")
        ELSE [status |-> 200, tool_name |-> tool,
              content |-> IF tool = "internet_search"
                          THEN format_search_results(out.value)
                          ELSE out.value]

S_OOPS == <<"o","o","p","s">>
S_IMAGE_URL == <<"h","t","t","p",":","/","/","i","/","1">>
S_FEED ==
    S_ENTRY \o S_TITLE \o <<" ","T","\n","u"," ">> \o S_TITLE_END \o S_ID
      \o <<"h","t","t","p",":","/","/","x","/","1">> \o S_ID_END \o S_ENTRY
      \o S_TITLE \o <<"n","o"," ","i","d">> \o S_TITLE_END

\* the queries, and a credential that is missing or set
Queries == { <<"a", " ", "b">> }
ApiKeys == { <<>>, <<"k">> }

\* what the providers may do: be out of reach, answer 503, answer 200 with a
\* body that is no JSON, with an empty object, and with the bodies they document
Down == << Unreachable, Status(503, S_OOPS, FALSE, EmptyObject) >>

PerplexityReplies ==
    Down \o
    << Status(200, S_OOPS, FALSE, EmptyObject),
       Status(200, <<>>, TRUE, EmptyObject),
       Status(200, <<>>, TRUE, [choices |-> <<>>]),
       Status(200, <<>>, TRUE,
              [choices |-> <<[message |-> [content |-> <<"a">>]]>>,
               citations |-> << <<"u">>, <<"v">> >>]) >>

TavilyReplies ==
    Down \o
    << Status(200, <<>>, TRUE, EmptyObject),
       Status(200, <<>>, TRUE,
              [results |-> << [title |-> <<"T">>, url |-> <<"u">>,
                               content |-> <<" ", "c">>],
                              [url |-> <<"v">>] >>]) >>

WikipediaReplies ==
    Down \o
    << Status(404, S_OOPS, FALSE, EmptyObject),
       Status(200, <<>>, TRUE, EmptyObject),
       Status(200, <<>>, TRUE, [extract |-> <<"s">>]) >>

ArxivReplies ==
    Down \o
    << Status(200, <<>>, FALSE, EmptyObject),
       Status(200, S_FEED, FALSE, EmptyObject) >>

PicsartReplies ==
    Down \o
    << Status(200, <<>>, TRUE, EmptyObject),
       Status(200, <<>>, TRUE, [data |-> <<>>]),
       Status(200, <<>>, TRUE, [data |-> <<[url |-> S_IMAGE_URL]>>]) >>

ImageReplies == Down \o << Status(200, <<"P", "N", "G">>, FALSE, EmptyObject) >>

Hexes == { <<"0","0","0","0","0","0","0","1">>, <<"a","b","c","d","e","f","0","2">> }

SearchTools == {"internet_search", "wikipedia_lookup", "arxiv_search"}

\* the replies of the provider a search tool asks
RepliesOf(tool) ==
    IF tool = "internet_search" THEN TavilyReplies
    ELSE IF tool = "wikipedia_lookup" THEN WikipediaReplies
    ELSE ArxivReplies

ToolsInit ==
    /\ StoreIdle
    /\ DiffIdle
    /\ GradioIdle
    /\ PipelineIdle
    /\ text = <<>>
    /\ result = NoResult

\* a tool has been called: its name, the provider's reply and how the call ended
ToolCalled(fn, reply, out) ==
    /\ result' = [fn |-> fn, app |-> "tools", provider |-> reply, value |-> out]
    /\ UNCHANGED <<topics, sections, versions, now, resp, text, default_prefix,
                   diff_call, session, store_call, run>>

PerplexitySearch ==
    /\ \E query \in Queries, api_key \in ApiKeys, i \in DOMAIN PerplexityReplies :
          ToolCalled("perplexity_search", PerplexityReplies[i],
                 perplexity_search(query, api_key, PerplexityReplies[i]))
    /\ UNCHANGED disk

InternetSearch ==
    /\ \E query \in Queries, i \in DOMAIN TavilyReplies :
          ToolCalled("internet_search", TavilyReplies[i],
                 internet_search(query, TavilyReplies[i]))
    /\ UNCHANGED disk

WikipediaLookup ==
    /\ \E query \in Queries, i \in DOMAIN WikipediaReplies :
          ToolCalled("wikipedia_lookup", WikipediaReplies[i],
                 wikipedia_lookup(query, WikipediaReplies[i]))
    /\ UNCHANGED disk

ArxivSearch ==
    /\ \E query \in Queries, i \in DOMAIN ArxivReplies :
          ToolCalled("arxiv_search", ArxivReplies[i],
                 arxiv_search(query, ArxivReplies[i]))
    /\ UNCHANGED disk

PicsartGenerate ==
    \E prompt \in Queries, api_key \in ApiKeys, i \in DOMAIN PicsartReplies,
       j \in DOMAIN ImageReplies, hex \in Hexes :
    \E r \in {picsart_generate(prompt, api_key, PicsartReplies[i], ImageReplies[j],
                                hex, disk)} :
       /\ ToolCalled("picsart_generate", PicsartReplies[i], r.out)
       /\ disk' = r.files

\* POST /section/tool with one of the search tools
RunSectionTool ==
    /\ \E tool \in SearchTools, query \in Queries :
       \E i \in DOMAIN RepliesOf(tool) :
          resp' = Merge([op |-> "run_section_tool", tool |-> tool,
                         provider |-> RepliesOf(tool)[i]],
                        run_section_tool(tool, query, RepliesOf(tool)[i]))
    /\ UNCHANGED <<topics, sections, versions, now, text, result, default_prefix,
                   diff_call, session, store_call, run, disk>>

ToolsNext ==
    \/ PerplexitySearch
    \/ InternetSearch
    \/ WikipediaLookup
    \/ ArxivSearch
    \/ PicsartGenerate
    \/ RunSectionTool

SpecTools == ToolsInit /\ [][ToolsNext]_vars

----------------------------------------------------------------------------
(* gradio_app: the editing session *)

S_VERSION == <<"V","e","r","s","i","o","n"," ">>
S_INITIAL == <<" ","(","i","n","i","t","i","a","l",")">>
S_ORIGINAL_BASELINE == <<"O","r","i","g","i","n","a","l"," ","b","a","s","e","l","i","n","e">>
S_ORIGINAL_V == <<"O","r","i","g","i","n","a","l"," ","v">>
S_NONE_RECORDED == <<"(","n","o","n","e"," ","r","e","c","o","r","d","e","d",")">>

\* the label of the index-th section in the section dropdown
SectionLabel(index, title) == IntToStr(index) \o <<".", " ">> \o title

SectionChoices(secs) == [index \in DOMAIN secs |-> SectionLabel(index, secs[index].title)]

\* int(s) for a text of decimal digits with surrounding white space; -1 stands
\* for the ValueError of any other text
RECURSIVE DigitsValue(_)
DigitsValue(s) ==
    IF s = <<>> THEN 0
    ELSE 10 * DigitsValue(SubSeq(s, 1, Len(s) - 1))
         + (CHOOSE d \in 0..9 : DIGITS[d + 1] = s[Len(s)])

ParseInt(s) ==
    LET t == Strip(s)
    IN  IF t # <<>> /\ Range(t) \subseteq Range(DIGITS) THEN DigitsValue(t) ELSE -1

\* _find_section: the position in secs of the section a label selects, 0 for None
find_section(selected, secs) ==
    IF selected = <<>> THEN 0
    ELSE LET dot == IndexFrom(selected, {"."}, 1)
         IN  IF dot = 0 THEN 0
             ELSE LET index == ParseInt(SubSeq(selected, 1, dot - 1)) - 1
                  IN  IF index >= 0 /\ index < Len(secs) THEN index + 1 ELSE 0

GradioMessage(msg) == [kind |-> "message", text |-> msg]

\* gradio_app.section_diff_html: the value returned and
\* HtmlDiff._default_prefix after the call
gradio_section_diff_html(selected, working_sections, original_sections, prefix) ==
    IF selected = <<>>
    THEN [out |-> GradioMessage("Select a section to view its diff."), prefix |-> prefix]
    ELSE IF find_section(selected, working_sections) = 0
    THEN [out |-> GradioMessage("Working section not found."), prefix |-> prefix]
    ELSE IF find_section(selected, original_sections) = 0
    THEN [out |-> GradioMessage("Original section not available for diff."),
          prefix |-> prefix]
    ELSE compute_diff_html("gradio",
             original_sections[find_section(selected, original_sections)].body,
             working_sections[find_section(selected, working_sections)].body,
             prefix)

\* _timestamp: the clock, formatted
timestamp(clock) == IntToStr(clock)

\* format_version_history: one row per entry, in the order of the history
format_version_history(history) ==
    IF history = <<>>
    THEN << <<S_NONE_RECORDED, <<>>>> >>
    ELSE [n \in DOMAIN history |-> <<history[n].name, history[n].timestamp>>]

VersionEntry(name, clock, latex_text) ==
    [name |-> name, timestamp |-> timestamp(clock), text |-> latex_text]

\* gr.Error: the handler raises, no output component is updated
GrError(msg) == [status |-> "error", detail |-> msg]

\* init_session with an empty comparison path, the document read: the new values
\* of the state components and the diff that is displayed
init_session_loaded(st, latex_text, parsed, diff, clock) ==
    [ status  |-> "Session ready.",
      session |-> [ file              |-> st.file,
                    sections          |-> parsed,
                    latex             |-> latex_text,
                    original_latex    |-> latex_text,
                    comments          |-> <<>>,
                    working_versions  |->
                        <<VersionEntry(S_VERSION \o <<"1">> \o S_INITIAL, clock,
                                       latex_text)>>,
                    original_versions |->
                        <<VersionEntry(S_ORIGINAL_BASELINE, clock, latex_text)>>,
                    original_sections |-> parsed ],
      diff_html |-> diff.out,
      prefix    |-> diff.prefix,
      stamped   |-> TRUE ]

init_session_parsed(st, latex_text, parsed, clock, prefix) ==
    init_session_loaded(st, latex_text, parsed,
        IF parsed = <<>>
        THEN [out |-> GradioMessage("Select a section to view its diff."),
              prefix |-> prefix]
        ELSE gradio_section_diff_html(SectionLabel(1, parsed[1].title),
                                      parsed, parsed, prefix),
        clock)

init_session(st, clock, prefix) ==
    IF ~st.file.exists
    THEN [ status  |-> "Context file not found",
           session |-> [NoSession EXCEPT !.file = st.file],
           diff_html |-> GradioMessage("Provide both primary and original documents to view differences."),
           prefix    |-> prefix,
           stamped   |-> FALSE ]
    ELSE init_session_parsed(st, st.file.text, parse_sections(st.file.text),
                             clock, prefix)

\* a faulty variant of spliced that cuts one character past the recorded end
spliced_past_end(latex_text, section, new_body) ==
    Slice(latex_text, 0, section.body_start)
        \o <<"\n">> \o Strip(new_body) \o <<"\n">>
        \o Slice(latex_text, section.body_end + 1, Len(latex_text))

\* the text save_section_edit writes: the section's recorded span replaced by
\* the trimmed new body between two line feeds
spliced(latex_text, section, new_body) ==
    Slice(latex_text, 0, section.body_start)
        \o <<"\n">> \o Strip(new_body) \o <<"\n">>
        \o Slice(latex_text, section.body_end, Len(latex_text))

\* the outputs of save_section_edit once the new text is parsed again and the
\* section's diff is computed
save_section_saved(st, new_latex, updated_sections, diff, clock) ==
    [ status  |-> "ok",
      session |-> [st EXCEPT
                     !.file = [exists |-> TRUE, text |-> new_latex],
                     !.sections = updated_sections,
                     !.latex = new_latex,
                     !.working_versions =
                         Append(@, VersionEntry(S_VERSION \o IntToStr(Len(@) + 1),
                                                clock, new_latex))],
      diff_html |-> diff.out,
      prefix    |-> diff.prefix ]

save_section_parsed(st, section_choice, new_latex, updated_sections, clock, prefix) ==
    save_section_saved(st, new_latex, updated_sections,
                       gradio_section_diff_html(section_choice, updated_sections,
                                                st.original_sections, prefix),
                       clock)

\* save_section_edit handing back the section list it was given
save_section_spliced_stale(st, section_choice, new_latex, clock, prefix) ==
    save_section_parsed(st, section_choice, new_latex, st.sections, clock, prefix)

save_section_spliced(st, section_choice, new_latex, clock, prefix) ==
    save_section_parsed(st, section_choice, new_latex, parse_sections(new_latex),
                        clock, prefix)

save_section_edit(st, section_choice, new_body, clock, prefix) ==
    IF section_choice = <<>>
    THEN GrError("Select a section before saving edits.")
    ELSE IF st.latex = <<>>
    THEN GrError("Load a document before editing.")
    ELSE IF find_section(section_choice, st.sections) = 0
    THEN GrError("Selected section could not be found. Reinitialize and try again.")
    ELSE save_section_spliced(st, section_choice,
                              spliced(st.latex,
                                      st.sections[find_section(section_choice,
                                                               st.sections)],
                                      new_body),
                              clock, prefix)

snapshot_working_version(st, clock) ==
    IF st.latex = <<>>
    THEN GrError("No working document loaded to snapshot.")
    ELSE [ status  |-> "ok",
           session |-> [st EXCEPT
                          !.working_versions =
                              Append(@, VersionEntry(S_VERSION \o IntToStr(Len(@) + 1),
                                                     clock, st.latex))] ]

promote_promoted(st, new_original_sections, diff, clock) ==
    [ status  |-> "ok",
      session |-> [st EXCEPT
                     !.original_latex = st.latex,
                     !.original_versions =
                         Append(@, VersionEntry(S_ORIGINAL_V \o IntToStr(Len(@) + 1),
                                                clock, st.latex)),
                     !.original_sections = new_original_sections],
      diff_html |-> diff.out,
      prefix    |-> diff.prefix ]

promote_parsed(st, section_choice, new_original_sections, clock, prefix) ==
    promote_promoted(st, new_original_sections,
                     gradio_section_diff_html(section_choice, st.sections,
                                              new_original_sections, prefix),
                     clock)

promote_working_to_original(st, section_choice, clock, prefix) ==
    IF st.latex = <<>>
    THEN GrError("No working document available to promote.")
    ELSE promote_parsed(st, section_choice, parse_sections(st.latex), clock, prefix)

----------------------------------------------------------------------------
(* gradio_app: one session over one document file *)

\* the document file at the context path when the session starts
GradioFiles ==
    { NoFile,
      [exists |-> TRUE, text |-> S_EXAMPLE \o S_END_DOCUMENT],
      [exists |-> TRUE, text |-> S_EXAMPLE],
      [exists |-> TRUE, text |-> <<"a">>] }

\* the values the section dropdown offers, and no selection
Choices(secs) == {<<>>} \cup Range(SectionChoices(secs))

NewBodies ==
    { <<"x">>, <<>>, <<" ", "y", "\n">>, <<"\\","s","e","c","t","i","o","n">>,
      S_SECTION_OPEN \o <<"Z", "}", "w">>, S_END_DOCUMENT }

GradioInit ==
    /\ StoreIdle
    /\ PipelineIdle
    /\ DiffIdle
    /\ text = <<>>
    /\ result = NoResult
    /\ \E f \in GradioFiles : session = [NoSession EXCEPT !.file = f]

GradioFrame == UNCHANGED <<topics, sections, versions, text, result, diff_call,
                           store_call, run, disk>>

GradioRaised(op, r) ==
    /\ resp' = [op |-> op, status |-> "error", detail |-> r.detail]
    /\ UNCHANGED <<session, now, default_prefix>>

\* the Initialize button
GradioInitSession ==
    /\ now < MaxTime
    /\ \E r \in {init_session(session, now, default_prefix)} :
          /\ session' = r.session
          /\ default_prefix' = r.prefix
          /\ now' = IF r.stamped THEN now + 1 ELSE now
          /\ resp' = [ op |-> "init_session", status |-> r.status,
                       working_table  |-> format_version_history(r.session.working_versions),
                       original_table |-> format_version_history(r.session.original_versions),
                       diff_html |-> r.diff_html ]
    /\ GradioFrame

\* the Save Section Edits button
SaveSectionEdit ==
    /\ now < MaxTime
    /\ \E section_choice \in Choices(session.sections), new_body \in NewBodies :
          \E r \in {save_section_edit(session, section_choice, new_body, now,
                                      default_prefix)} :
             IF r.status = "error" THEN GradioRaised("save_section_edit", r)
             ELSE /\ session' = r.session
                  /\ default_prefix' = r.prefix
                  /\ now' = now + 1
                  /\ resp' = [ op |-> "save_section_edit", status |-> "ok",
                               section_choice |-> section_choice,
                               new_body |-> new_body,
                               working_table |->
                                   format_version_history(r.session.working_versions),
                               diff_html |-> r.diff_html ]
    /\ GradioFrame

\* the Snapshot button
SnapshotWorkingVersion ==
    /\ now < MaxTime
    /\ \E r \in {snapshot_working_version(session, now)} :
          IF r.status = "error" THEN GradioRaised("snapshot_working_version", r)
          ELSE /\ session' = r.session
               /\ now' = now + 1
               /\ resp' = [ op |-> "snapshot_working_version", status |-> "ok",
                            working_table |->
                                format_version_history(r.session.working_versions) ]
               /\ UNCHANGED default_prefix
    /\ GradioFrame

\* the Promote button
PromoteWorkingToOriginal ==
    /\ now < MaxTime
    /\ \E section_choice \in Choices(session.sections) :
          \E r \in {promote_working_to_original(session, section_choice, now,
                                                default_prefix)} :
             IF r.status = "error" THEN GradioRaised("promote_working_to_original", r)
             ELSE /\ session' = r.session
                  /\ default_prefix' = r.prefix
                  /\ now' = now + 1
                  /\ resp' = [ op |-> "promote_working_to_original", status |-> "ok",
                               original_table |->
                                   format_version_history(r.session.original_versions),
                               diff_html |-> r.diff_html ]
    /\ GradioFrame

GradioNext ==
    \/ GradioInitSession
    \/ SaveSectionEdit
    \/ SnapshotWorkingVersion
    \/ PromoteWorkingToOriginal

SpecGradio == GradioInit /\ [][GradioNext]_vars

----------------------------------------------------------------------------
(* Claims about the text functions, under SpecText *)

\* the headings \section{title} of a text: the matches of \\section\{[^}]*\}
Headings(s) ==
    IF s = <<>> THEN <<>> ELSE
    MatchSpans([j \in 1..Len(s) |->
                   IF StartsWithAt(s, j, S_SECTION_OPEN)
                   THEN IndexFrom(s, {"}"}, j + Len(S_SECTION_OPEN))
                   ELSE 0], 1)

S_INTRO == <<"I","n","t","r","o">>
S_CONCLUSION == <<"C","o","n","c","l","u","s","i","o","n">>

\* C1: for a text with N \section{title} headings parse_sections returns exactly N
\* sections, in source order (each body starting right after its heading), numbered
\* 1..N, the last body running to the end of the text; the example text of the
\* specification yields the two sections "Intro" and "Conclusion"
C1_OneSectionPerHeading ==
    result.fn = "parse_sections" =>
        LET hs == Headings(text)
            secs == result.value
        IN  /\ Len(secs) = Len(hs)
            /\ \A n \in DOMAIN secs :
                  /\ n \in DOMAIN hs
                  /\ secs[n].id = SectionId(n)
                  /\ secs[n].body_start = hs[n].end
                  /\ n = Len(hs) => secs[n].body_end = Len(text)
            /\ text = S_EXAMPLE =>
                  [n \in DOMAIN secs |-> secs[n].title] = <<S_INTRO, S_CONCLUSION>>

\* C6: normalization is idempotent: normalizing the value _normalize_text /
\* _normalize_latex returned gives that value again
C6_NormalizeIdempotent ==
    result.fn = "normalize" => Normalize(result.app, result.value) = result.value

Blank(s) == \A i \in DOMAIN s : s[i] \in Whitespace

\* C7: _paragraphs_from_text never returns an empty list; an empty or blank body
\* gives exactly the placeholder paragraph; every paragraph returned is non-empty
\* and has no leading or trailing whitespace
C7_AtLeastOneParagraph ==
    result.fn = "paragraphs_from_text" =>
        /\ Len(result.value) >= 1
        /\ Blank(text) => result.value = <<S_NO_CONTENT>>
        /\ \A i \in DOMAIN result.value :
              /\ result.value[i] # <<>>
              /\ result.value[i][1] \notin Whitespace
              /\ result.value[i][Len(result.value[i])] \notin Whitespace

\* C7 witness: a blank, non-empty body has been segmented into the placeholder
C7_Witness ==
    /\ result.fn = "paragraphs_from_text"
    /\ text # <<>>
    /\ Blank(text)
    /\ result.value = <<S_NO_CONTENT>>

----------------------------------------------------------------------------
(* Claims about the diff engine, under SpecDiff *)

Called == diff_call.out.kind # "none"

\* C8: compute_diff_html returns the "insufficient input" message, and computes no
\* diff (no table is made, the prefix counter is not advanced), whenever either
\* input is the empty string
C8_EmptyInputMessage ==
    (Called /\ (diff_call.primary = <<>> \/ diff_call.compare = <<>>)) =>
        /\ diff_call.out = DiffMessage(diff_call.app)
        /\ default_prefix = 0

\* C8 witness: a call with an empty primary and a non-empty compare text
C8_Witness ==
    /\ Called
    /\ diff_call.primary = <<>>
    /\ diff_call.compare # <<>>
    /\ diff_call.out.kind = "message"

\* C9: for a non-empty text X, compute_diff_html(X, X) is a diff with no added,
\* removed or changed line marker
C9_IdenticalNoMarkers ==
    (Called /\ diff_call.primary = diff_call.compare /\ diff_call.primary # <<>>) =>
        /\ diff_call.out.kind = "table"
        /\ Markers(diff_call.out) = {}

\* C9 witness: a non-empty text whose normalization differs from it was diffed
\* against itself, giving a table over its lines
C9_Witness ==
    /\ Called
    /\ diff_call.primary = diff_call.compare
    /\ diff_call.out.kind = "table"
    /\ diff_call.out.from # <<>>
    /\ Normalize(diff_call.app, diff_call.primary) # diff_call.primary

\* C10: compute_diff_html is deterministic: a call with the same inputs as the call
\* before it returns the same output
C10_SameInputsSameOutput ==
    [][Called => diff_call'.out = diff_call.out]_vars

----------------------------------------------------------------------------
(* Claims about the section store, under Spec *)

\* the section a save or promote request answered with 200 was about, in the
\* tables before the step
Target ==
    CHOOSE sec \in sections :
        /\ sec.order_index = resp'.section_index
        /\ \E tp \in topics : tp.slug = resp'.context_path /\ tp.id = sec.topic_id

\* the rows with the id of row, in a table
SameId(rows, row) == {r \in rows : r.id = row.id}

Promoted == resp'.op = "promote_document" /\ resp'.status = 200
Saved == resp'.op = "save_section" /\ resp'.status = 200
Stored == resp'.op \in {"generate_topic", "regenerate"}

\* C2: promote_document sets the section's approved_html to its html_content,
\* appends exactly one version labelled "approved" with that content, leaves the
\* working content as it was, and changes no other section
C2_PromoteApproves ==
    [][Promoted =>
        /\ SameId(sections', Target) =
              {[Target EXCEPT !.approved_html = Target.html_content,
                              !.updated_at = now']}
        /\ \A sec \in sections \ {Target} : sec \in sections'
        /\ Cardinality(sections') = Cardinality(sections)
        /\ versions \subseteq versions'
        /\ Cardinality(versions' \ versions) = 1
        /\ \A v \in versions' \ versions :
              /\ v.section_id = Target.id
              /\ v.label = "approved"
              /\ v.html_content = Target.html_content
    ]_vars

\* C2 witness: a section whose working text had been edited was promoted: its
\* approved text is the edited text, beside a sibling section left alone
C2_Witness ==
    /\ resp.op = "promote_document"
    /\ resp.status = 200
    /\ \E sec \in sections, other \in sections :
          /\ sec.order_index = resp.section_index
          /\ other.topic_id = sec.topic_id
          /\ other.id # sec.id
          /\ sec.approved_html = sec.html_content
          /\ \E v \in versions : v.section_id = sec.id /\ v.label = "working"
                                 /\ v.html_content = sec.html_content
          /\ \E v \in versions : v.section_id = sec.id /\ v.label = "approved"
                                 /\ v.html_content = sec.html_content
                                 /\ v.created_at = now

\* C3: save_section sets the section's html_content to new_body and appends
\* exactly one version labelled "working" with content new_body; the section's
\* approved_html, and the title, html_content and approved_html of every other
\* section, are unchanged
C3_SaveWorking ==
    [][Saved =>
        /\ SameId(sections', Target) =
              {[Target EXCEPT !.html_content = resp'.new_body,
                              !.updated_at = now']}
        /\ \A sec \in sections \ {Target} : sec \in sections'
        /\ Cardinality(sections') = Cardinality(sections)
        /\ versions \subseteq versions'
        /\ Cardinality(versions' \ versions) = 1
        /\ \A v \in versions' \ versions :
              /\ v.section_id = Target.id
              /\ v.label = "working"
              /\ v.html_content = resp'.new_body
    ]_vars

\* C3 witness: a save left a section whose working text is the new body and
\* differs from its approved text, beside a sibling section
C3_Witness ==
    /\ resp.op = "save_section"
    /\ resp.status = 200
    /\ \E sec \in sections, other \in sections :
          /\ sec.order_index = resp.section_index
          /\ other.topic_id = sec.topic_id
          /\ other.id # sec.id
          /\ sec.html_content = resp.new_body
          /\ sec.approved_html # sec.html_content
          /\ \E v \in versions : v.section_id = sec.id /\ v.label = "working"
                                 /\ v.created_at = now

\* C4: the version history is append-only: a save or a promotion removes and
\* alters no version (same section, label, content and creation time), and a
\* version disappears only in a generate/regenerate that deletes its section
C4_HistoryAppendOnly ==
    [][/\ (Saved \/ Promoted) => versions \subseteq versions'
       /\ \A v \in versions \ versions' :
             /\ Stored
             /\ \A sec \in sections : sec.id = v.section_id => sec \notin sections'
    ]_vars

\* C4 witness: a section with an "initial", a "working" and an "approved" version,
\* created at three different times
C4_Witness ==
    \E sec \in sections :
    \E v1 \in versions, v2 \in versions, v3 \in versions :
        /\ v1.section_id = sec.id /\ v1.label = "initial"
        /\ v2.section_id = sec.id /\ v2.label = "working"
        /\ v3.section_id = sec.id /\ v3.label = "approved"
        /\ v1.created_at < v2.created_at
        /\ v2.created_at < v3.created_at

\* the versions of a section, in a table
VersionsOf(rows, sec) == {v \in rows : v.section_id = sec.id}

\* what sections_from_latex returns for each document the pipeline may write
ParsedDocs == [d \in LatexDocs |-> sections_from_latex(d)]

\* C5: after store_topic_sections for a slug that exists, no Section of the
\* topic and no SectionVersion of such a section from before remains; the
\* topic's sections are exactly those parsed from the new text, in order, each
\* with exactly one version, labelled "initial", and approved_html = html_content
C5_RegenerateReplaces ==
    [][(Stored /\ \E tp \in topics : tp.slug = resp'.context_path) =>
        LET tp   == CHOOSE x \in topics : x.slug = resp'.context_path
            old  == topic_sections(sections, tp.id)
            new  == topic_sections(sections', tp.id)
            data == ParsedDocs[resp'.latex_text]
        IN  /\ old \cap sections' = {}
            /\ \A sec \in old : VersionsOf(versions, sec) \cap versions' = {}
            /\ Cardinality(new) = Len(data)
            /\ \A n \in DOMAIN data : \E sec \in new :
                  /\ sec.order_index = n
                  /\ sec.title = data[n].title
                  /\ sec.html_content = data[n].html
                  /\ sec.approved_html = sec.html_content
                  /\ Cardinality(VersionsOf(versions', sec)) = 1
                  /\ \A v \in VersionsOf(versions', sec) :
                        /\ v.label = "initial"
                        /\ v.html_content = sec.html_content
    ]_vars

\* C5 witness: a regenerate for a topic that was stored earlier: every section of
\* the topic was made by this call and has only its "initial" version
C5_Witness ==
    /\ resp.op = "regenerate"
    /\ \E tp \in topics :
          /\ tp.slug = resp.context_path
          /\ tp.created_at < tp.updated_at
          /\ tp.updated_at = now
          /\ \A sec \in topic_sections(sections, tp.id) :
                /\ sec.created_at = now
                /\ \A v \in VersionsOf(versions, sec) : v.label = "initial"

----------------------------------------------------------------------------
(* Claims about the recorded body spans, under SpecText *)


\* C11: the body spans parse_sections records are in document order and do not
\* overlap (body_start <= body_end, and a section's body_end is not greater than
\* the next section's body_start), text[body_start:body_end] is the recorded
\* body, and splicing the body back into its span reproduces the text
C11_SpansOrdered ==
    result.fn = "parse_sections" =>
        LET secs == result.value
        IN  \A n \in DOMAIN secs :
               /\ 0 <= secs[n].body_start
               /\ secs[n].body_start <= secs[n].body_end
               /\ secs[n].body_end <= Len(text)
               /\ n < Len(secs) => secs[n].body_end <= secs[n + 1].body_start
               /\ Slice(text, secs[n].body_start, secs[n].body_end) = secs[n].body
               /\ Slice(text, 0, secs[n].body_start) \o secs[n].body
                     \o Slice(text, secs[n].body_end, Len(text)) = text

\* C11 witness: a text parsed into two sections with non-empty bodies
C11_Witness ==
    /\ result.fn = "parse_sections"
    /\ Len(result.value) = 2
    /\ result.value[1].body # <<>>
    /\ result.value[2].body # <<>>
    /\ result.value[1].body_end < result.value[2].body_start

----------------------------------------------------------------------------
(* Claims about the editing session of gradio_app, under SpecGradio *)

\* no heading opener and no end-of-document marker occurs in the text
NoHeading(s) ==
    \A i \in DOMAIN s : /\ ~StartsWithAt(s, i, S_SECTION_OPEN)
                        /\ ~StartsWithAt(s, i, S_END_DOCUMENT)

\* the step is a save_section_edit that wrote the document
SavedEdit ==
    /\ resp'.op = "save_section_edit"
    /\ resp'.status = "ok"
    /\ now' = now + 1

\* C12: when save_section_edit splices a new body holding no \section{ and no
\* \end{document} into the document, the sections parsed from the new text are as
\* many as before, with the same titles in the same order, every other section's
\* body is unchanged, and the edited section's body, trimmed, is the new body,
\* trimmed.
C12_SpliceStable ==
    [][ SavedEdit /\ NoHeading(resp'.new_body) =>
          /\ Len(session'.sections) = Len(session.sections)
          /\ \A n \in DOMAIN session.sections :
                /\ session'.sections[n].title = session.sections[n].title
                /\ IF n = find_section(resp'.section_choice, session.sections)
                   THEN Strip(session'.sections[n].body) = Strip(resp'.new_body)
                   ELSE session'.sections[n].body = session.sections[n].body
      ]_vars

\* a two-section document whose second section was saved with a new body
C12_Witness ==
    /\ resp.op = "save_section_edit"
    /\ resp.status = "ok"
    /\ resp.new_body = <<" ", "y", "\n">>
    /\ Len(session.sections) = 2
    /\ find_section(resp.section_choice, session.sections) = 2
    /\ session.sections[2].body = <<"\n", "y", "\n">>

\* the rows of a history table go from the latest timestamp to the earliest
MostRecentFirst(rows) ==
    \A i, j \in DOMAIN rows :
        i < j => ParseInt(rows[i][2]) >= ParseInt(rows[j][2])

\* C14: every version history shown to the user lists the versions most recent
\* first: the rows format_version_history produces for the working versions go
\* from the latest creation time to the earliest.
C14_MostRecentFirst ==
    "working_table" \in DOMAIN resp => MostRecentFirst(resp.working_table)

----------------------------------------------------------------------------
(* Claims about the answers of the API handlers, under Spec *)

Mutating == {"generate_topic", "regenerate", "save_section", "promote_document"}

ViewFields ==
    { "context_path", "sections", "original_sections", "sections_html",
      "original_html", "diff_html", "working_versions", "original_versions" }

\* the answer carries the session view of the tables as they are now
RefreshedView(answer) ==
    /\ ViewFields \subseteq DOMAIN answer
    /\ \E tp \in TopicBySlug(answer.context_path) :
          /\ answer.sections = sections_payload(sections, tp.id, FALSE)
          /\ answer.original_sections = sections_payload(sections, tp.id, TRUE)
          /\ answer.sections_html = render_document_html(answer.sections)
          /\ answer.original_html = render_document_html(answer.original_sections)
          /\ answer.working_versions = working_versions(sections, versions, tp.id)
          /\ answer.original_versions[1].timestamp = tp.updated_at

\* C19: the answer of every mutating request that succeeded (generate topic,
\* regenerate, save section, promote section) is the full session view computed
\* from the tables after the mutation.
C19_FullView ==
    (resp.op \in Mutating /\ resp.status = 200) => RefreshedView(resp)

\* the same for the three handlers that end in build_session_response
C19_ViewAfterEdit ==
    (resp.op \in Mutating \ {"generate_topic"} /\ resp.status = 200)
        => RefreshedView(resp)

----------------------------------------------------------------------------
(* Claims about the requests that are refused, under SpecApi and SpecLlm *)

\* C16: init_session, save_section, section_diff and promote_document answer 200
\* only when the topic of the context path exists and, for save_section and
\* promote_document, the topic has a section at the index; otherwise they answer
\* 404, and a request answered 404 leaves the Topic, Section and SectionVersion
\* tables as they were.
C16_NotFoundUnchanged ==
    [][ resp'.op \in {"init_session", "save_section", "section_diff",
                      "promote_document"} =>
          /\ resp'.status \in {200, 404}
          /\ resp'.status = 404 => UNCHANGED <<topics, sections, versions>>
          /\ resp'.status = 200 =>
                \E tp \in TopicBySlug(resp'.context_path) :
                    resp'.op \in {"save_section", "promote_document"} =>
                        SectionAt(sections, tp.id, resp'.section_index) # {}
      ]_vars

\* a save_section refused for a missing section of a stored topic
C16_Witness ==
    /\ resp.op = "save_section"
    /\ resp.status = 404
    /\ resp.detail = "Section not found."
    /\ versions # {}

\* C18: a section-diff request is answered as a normal result only when the topic
\* has a section at the requested index.
C18_DiffIndexChecked ==
    (resp.op = "section_diff" /\ resp.status = 200) =>
        \E tp \in TopicBySlug(resp.context_path) :
            SectionAt(sections, tp.id, resp.section_index) # {}

\* C17: a rewrite or edit request whose instruction is empty or only white space
\* is refused with an error status.
C17_EmptyInstructionRefused ==
    (resp.op \in {"llm_rewrite", "deepagent_edit"}
        /\ Strip(resp.instruction) = <<>>) => resp.status >= 400

----------------------------------------------------------------------------
(* Claims about a saved body seen again, under SpecApi *)

\* the section the section_diff answer is about, in a topic of two sections
DiffedSections ==
    IF resp.op = "section_diff" /\ resp.status = 200
    THEN UNION { SectionAt(sections, tp.id, resp.section_index) :
                 tp \in {t \in TopicBySlug(resp.context_path) :
                            Cardinality(topic_sections(sections, t.id)) = 2} }
    ELSE {}

\* the working text of the section is not its approved text: a body was saved
\* since the section was stored or promoted
Edited(sec) == sec.html_content # sec.approved_html

\* the line lists the diff of the section compares differ
LinesDiffer(sec) ==
    splitlines(Normalize("react", PayloadHtml(sec, TRUE)))
        # splitlines(Normalize("react", sec.html_content))

\* the session fetched again shows, in its sections and in the working render,
\* the working text stored for each section of the topic
ShowsStoredBodies ==
    (resp.op = "init_session" /\ resp.status = 200) =>
        \E tp \in TopicBySlug(resp.context_path) :
            /\ Len(resp.sections) = Cardinality(topic_sections(sections, tp.id))
            /\ \A n \in DOMAIN resp.sections :
                  \E sec \in SectionAt(sections, tp.id, resp.sections[n].index) :
                      /\ resp.sections[n].html = sec.html_content
                      /\ resp.sections_html[n].html = sec.html_content

----------------------------------------------------------------------------
(* Claims about the document the pipeline writes, under SpecPipeline *)

\* the printable characters, space to tilde
PRINTABLE ==
    { " ", "!", "\"", "#", "$", "%", "&", "'", "(", ")", "*", "+", ",", "-",
      ".", "/", "0", "1", "2", "3", "4", "5", "6", "7", "8", "9", ":", ";",
      "<", "=", ">", "?", "@", "A", "B", "C", "D", "E", "F", "G", "H", "I",
      "J", "K", "L", "M", "N", "O", "P", "Q", "R", "S", "T", "U", "V", "W",
      "X", "Y", "Z", "[", "\\", "]", "^", "_", "U+0060", "a", "b", "c", "d", "e",
      "f", "g", "h", "i", "j", "k", "l", "m", "n", "o", "p", "q", "r", "s",
      "t", "u", "v", "w", "x", "y", "z", "{", "|", "}", "~" }

\* C20: every character of the full document text the pipeline writes is in the
\* constrained set, the printable characters and the characters the filter
\* lists, whether it came from the model's answer or from the topic.
C20_OnlyConstrained ==
    result.fn = "run" => Range(result.value) \subseteq PRINTABLE \cup LISTED

----------------------------------------------------------------------------
(* Claims about the history of a topic being stored, under SpecCommits *)

\* C15: the version history a session answer displays is never an empty list:
\* when no version is recorded for the topic it holds one placeholder row.
C15_HistoryNeverEmpty ==
    (resp.op = "init_session" /\ resp.status = 200) =>
        Len(resp.working_versions) >= 1

----------------------------------------------------------------------------
(* Claims about ResearchPipeline.run, under SpecRun *)

\* the model has answered a request of this run with the empty text
EmptyAnswer == \E k \in DOMAIN run.answers : run.answers[k] = <<>>

\* the run has written its document or returned it
Produced == run.pc \in {"pass1", "pass2", "returned"}

\* C21: a run in which the model returned empty output produces no document: it
\* neither writes the file nor returns a result.
C21_EmptyOutputFails == EmptyAnswer => ~Produced

\* a pdflatex pass of this run has failed, or pdflatex was not found
PassFailed == \E k \in DOMAIN run.passes : run.passes[k] # "ok"

\* C23: a run in which a pdflatex pass failed or pdflatex was missing returns
\* normally with pdf_path None, and its .tex file holds the full text that was
\* generated.
C23_PdfFailureNotFatal ==
    PassFailed =>
        /\ run.pc = "returned"
        /\ run.returned.pdf_path = None
        /\ run.returned.tex_path \in DOMAIN disk
        /\ disk[run.returned.tex_path] = run.returned.latex_full
        /\ run.returned.latex_full =
               wrap_with_preamble(run.topic, run.returned.latex_body)

\* a run has returned after its second pdflatex pass failed
C23_Witness ==
    /\ run.pc = "returned"
    /\ run.passes = <<"ok", "failed">>
    /\ Strip(run.returned.latex_body) # <<>>

\* the request of the k-th call of the model: the last message of the conversation
Request(k) == run.invoked[k][Len(run.invoked[k])]

\* the model is called for the draft, then for the critique of the draft's
\* output, and not again
TwoCalls ==
    /\ Len(run.invoked) <= 2
    /\ Len(run.invoked) >= 1 => Request(1) = Message("user", user_message(run.topic))
    /\ Len(run.invoked) = 2 =>
          /\ Request(2).role = "user"
          /\ StartsWith(Request(2).content, S_CRITIQUE)
          /\ Find(Request(2).content, run.draft_body) # 0
          /\ run.draft_body = run.state[Len(run.state)].content
    /\ run.pc \in {"write", "pass1", "pass2", "returned"} => Len(run.invoked) = 2

\* a call of the model that raised was the last one: it is not repeated, run ends
\* with the error before it names or writes a file
RaisedOnce ==
    run.pc = "raised" =>
        /\ Len(run.invoked) = Len(run.answers) + 1
        /\ run.tex_path = None
        /\ run.returned = None

\* C24: a run calls the model exactly twice, for the draft and then for the
\* critique whose prompt contains the draft output, each call once; when a call
\* raises, run ends with the error and the step leaves every file as it was.
C24_TwoCallsNoRetry ==
    /\ [](TwoCalls /\ RaisedOnce)
    /\ [][run'.pc \in {"draft", "critique", "write", "raised"} => disk' = disk]_vars

\* the critique call of a second run has raised, the first run's file on disk
C24_Witness ==
    /\ run.pc = "raised"
    /\ Len(run.invoked) = 2
    /\ run.calls_made = 2
    /\ disk # NoDisk

----------------------------------------------------------------------------
(* Claims about the tools, under SpecTools *)

\* the provider could not be reached or answered with a status other than 200
ProviderDown(reply) == reply.kind = "unreachable" \/ reply.code # 200

\* C22: a tool call whose provider is unreachable or answers with a non-success
\* status returns to its caller and never raises, and POST /section/tool is
\* answered 200 whatever the provider does.
C22_ToolsNeverRaise ==
    /\ (result.app = "tools" /\ ProviderDown(result.provider)) =>
           result.value.kind = "returned"
    /\ (resp.op = "run_section_tool" /\ ProviderDown(resp.provider)) =>
           resp.status = 200

----------------------------------------------------------------------------
(* Claims about two concurrent store_topic_sections calls, under SpecRace *)

\* both threads have ended a call, and the two calls named the same slug
BothCompleted ==
    /\ \A w \in Writers : store_call[w].pc \in {"returned", "raised"}
    /\ \A v, w \in Writers :
          slugify(store_call[v].topic_name) = slugify(store_call[w].topic_name)

\* the sections of the topic are the ones the call of w parsed, in its order
HoldsSectionsOf(w) ==
    \E tp \in TopicBySlug(slugify(store_call[w].topic_name)) :
       \E secs \in {OrderByIndex(topic_sections(sections, tp.id))} :
          /\ Len(secs) = Len(store_call[w].data)
          /\ \A k \in DOMAIN secs :
                /\ secs[k].order_index = k
                /\ secs[k].title = store_call[w].data[k].title
                /\ secs[k].html_content = store_call[w].data[k].html

\* C25: when two store_topic_sections calls for one slug have run concurrently
\* and both have ended, the topic holds the sections of exactly one call, and
\* every version left belongs to one of these sections.
C25_OneWriterWins ==
    BothCompleted =>
        /\ \E w \in Writers : HoldsSectionsOf(w)
        /\ \A v \in versions : \E s \in sections : s.id = v.section_id


----------------------------------------------------------------------------
(* pipeline.slugify and react_app._slug_from_identifier called on bounded
   topic names *)

MaxNameLen == 4

\* the characters of a topic name: a capital, a small letter, a digit, white
\* space, the underscore, punctuation and a letter outside ASCII
NameChars == {"A", "b", "1", " ", "_", "-", ".", "U+00E9"}

\* names that look like identifiers: a topic: prefix, a .tex suffix, a path
IdentifierLikeNames ==
    { S_TOPIC_PREFIX \o <<"x">>, <<"a">> \o S_TEX_SUFFIX,
      <<"r", "/", "a", ".", "b">>, <<"t", "o", "p", "i", "c">> }

Names ==
    UNION {[1..n -> NameChars] : n \in 0..MaxNameLen}
        \cup TopicNames \cup IdentifierLikeNames

\* the identifiers under which a request may name the topic of a slug: the
\* slug, the topic: form, and the path of the file run writes for it
IdentifierForms == {"slug", "topic", "path"}

Identifier(form, slug) ==
    CASE form = "slug"  -> slug
      [] form = "topic" -> S_TOPIC_PREFIX \o slug
      [] form = "path"  -> topic_file(S_RESULTS, slug, S_TEX_SUFFIX)

SlugInit ==
    /\ text \in Names
    /\ result = NoResult
    /\ StoreIdle
    /\ PipelineIdle
    /\ DiffIdle
    /\ GradioIdle

Slugify ==
    /\ result = NoResult
    /\ result' = [fn |-> "slugify", app |-> "pipeline", value |-> slugify(text)]
    /\ TextFrame

SlugFromIdentifier ==
    /\ result = NoResult
    /\ \E form \in IdentifierForms :
          result' = [fn |-> "_slug_from_identifier", app |-> form,
                     value |-> slug_from_identifier(
                                   Identifier(form, slugify(text)))]
    /\ TextFrame

SlugNext == Slugify \/ SlugFromIdentifier

SpecSlug == SlugInit /\ [][SlugNext]_vars

----------------------------------------------------------------------------
(* Claims about slugify, under SpecSlug *)

\* the positions of the lowercased name at which a maximal run of letters and
\* digits starts, and the run that starts at such a position
WordStarts(s) ==
    {i \in DOMAIN s : s[i] \in ALNUM /\ (i = 1 \/ s[i - 1] \notin ALNUM)}

WordAt(s, i) ==
    SubSeq(s, i, SetMin({j \in i..Len(s) :
                            j = Len(s) \/ s[j + 1] \notin ALNUM}))

\* the runs of letters and digits of s, in their order
Words(s) ==
    [k \in 1..Cardinality(WordStarts(s)) |->
        WordAt(s, CHOOSE i \in WordStarts(s) :
                     Cardinality({j \in WordStarts(s) : j < i}) = k - 1)]

Slugified == result.fn = "slugify"

\* C26: slugify returns a non-empty string over [a-z0-9_] that neither starts
\* nor ends with an underscore and holds no two underscores in a row; it is the
\* runs of letters and digits of the lowercased input joined by one underscore
\* each (what stands before the first and after the last run is dropped), and
\* "document" when the input holds no letter or digit.
C26_SlugShape ==
    Slugified =>
        /\ result.value # <<>>
        /\ Range(result.value) \subseteq ALNUM \cup {"_"}
        /\ result.value[1] # "_"
        /\ result.value[Len(result.value)] # "_"
        /\ \A i \in 1..Len(result.value) - 1 :
              ~(result.value[i] = "_" /\ result.value[i + 1] = "_")
        /\ result.value = IF Words(Lower(text)) = <<>> THEN S_DOCUMENT_SLUG
                          ELSE Join(Words(Lower(text)), <<"_">>)

\* a name with a capital and with a run of two characters between two runs of
\* letters and digits
C26_Witness ==
    /\ Slugified
    /\ text = <<"A", "-", "_", "1">>
    /\ result.value = <<"a", "_", "1">>

----------------------------------------------------------------------------
(* Claims about the stored rows after requests that run one after the other,
   under Spec *)

\* the last request stored a text in which parse_sections finds no heading
StoredWithoutHeading ==
    /\ resp.op \in {"generate_topic", "regenerate"}
    /\ react_parse_sections(resp.latex_text) = <<>>

\* C27: after any series of generate, regenerate, save and promote requests
\* every topic has at least one section, the order_index values of its sections
\* are exactly 1..n, each carried by one section, and every section has at least
\* one version; a text without a heading is stored as the one section titled
\* "Document".
C27_TopicsWellFormed ==
    /\ \A tp \in topics :
          \E secs \in {topic_sections(sections, tp.id)} :
             /\ secs # {}
             /\ {s.order_index : s \in secs} = 1..Cardinality(secs)
             /\ \A s \in secs : VersionsOf(versions, s) # {}
    /\ StoredWithoutHeading =>
          \E tp \in TopicBySlug(resp.context_path) :
             \E secs \in {topic_sections(sections, tp.id)} :
                /\ Cardinality(secs) = 1
                /\ \A s \in secs : s.title = S_DOCUMENT /\ s.order_index = 1

\* a text without a heading was stored as a second topic, next to a topic of two
\* sections one of which was saved
C27_Witness ==
    /\ StoredWithoutHeading
    /\ \E tp \in topics : Cardinality(topic_sections(sections, tp.id)) = 2
    /\ \E v \in versions : v.label = "working"

\* the version of the set vs appended last: ids grow with every insert
LastVersion(vs) == CHOOSE v \in vs : v.id = SetMax({w.id : w \in vs})

Labelled(vs, label) == {v \in vs : v.label = label}

\* C28: after any series of generate, regenerate, save and promote requests,
\* the version appended last to a section holds the section's html_content, and
\* the section's approved_html is the content of its last version labelled
\* "approved", or of its "initial" version when it has none.
C28_VersionsMirrorSection ==
    \A s \in sections :
       \E vs \in {VersionsOf(versions, s)} :
          /\ vs # {}
          /\ LastVersion(vs).html_content = s.html_content
          /\ IF Labelled(vs, "approved") # {}
             THEN LastVersion(Labelled(vs, "approved")).html_content
                     = s.approved_html
             ELSE /\ Labelled(vs, "initial") # {}
                  /\ \A v \in Labelled(vs, "initial") :
                        v.html_content = s.approved_html

\* a section that was promoted and then saved: its last version is a working
\* version, and its approved text is no longer its working text
C28_Witness ==
    \E s \in sections :
       \E vs \in {VersionsOf(versions, s)} :
          /\ Labelled(vs, "approved") # {}
          /\ LastVersion(vs).label = "working"
          /\ s.approved_html # s.html_content

----------------------------------------------------------------------------
(* Claims about the section list of the Gradio session, under SpecGradio *)

\* the step was a click on Snapshot or on Promote
SnapshotOrPromote ==
    resp'.op \in {"snapshot_working_version", "promote_working_to_original"}

\* C29: in the Gradio session the section list of the session state is always
\* parse_sections of the working text of the session state, so that the body
\* offsets of every section lie within that text; a snapshot and a promotion
\* change neither the section list nor the working text.
C29_SectionsFollowText ==
    /\ [](/\ session.sections = parse_sections(session.latex)
          /\ \A n \in DOMAIN session.sections :
                /\ 0 <= session.sections[n].body_start
                /\ session.sections[n].body_start <= session.sections[n].body_end
                /\ session.sections[n].body_end <= Len(session.latex))
    /\ [][SnapshotOrPromote =>
             /\ session'.sections = session.sections
             /\ session'.latex = session.latex]_vars

\* a promotion that followed a save: the working text is no longer the text
\* init_session read, it is the new baseline, and it has sections
C29_Witness ==
    /\ resp.op = "promote_working_to_original"
    /\ resp.status = "ok"
    /\ session.sections # <<>>
    /\ Len(session.working_versions) >= 2
    /\ session.latex # session.working_versions[1].text
    /\ session.original_latex = session.latex

\* C30: for every topic name t, _slug_from_identifier gives slugify(t) for each
\* identifier of the topic: the slug slugify(t) itself, "topic:" followed by the
\* slug, and the path results/<slug>/<slug>.tex of the file written for it; so
\* the lookup by slug every later request makes finds the topic stored under
\* slugify(t).
C30_IdentifierRoundTrip ==
    result.fn = "_slug_from_identifier" => result.value = slugify(text)

\* the path of the file of a topic whose name holds a capital and a blank
C30_Witness ==
    /\ result.fn = "_slug_from_identifier"
    /\ result.app = "path"
    /\ text = S_TOPIC_A
    /\ result.value = <<"a", "_", "b">>
============================================================================
